---- MODULE Spec2Model ----
(***************************************************************************)
(* HennaGallery: the gallery JSON pipeline of core/migration.py,           *)
(* core/schema_validator.py and core/gallery_manager.py (Format Detector,  *)
(* Field Normalizer, Schema Validator, Migrator, Folder Processor).        *)
(*                                                                         *)
(* Decoded JSON values are tagged records: [t |-> "null"],                 *)
(* [t |-> "bool", v |-> b], [t |-> "num", v |-> n], [t |-> "str", v |-> s] *)
(* with s a sequence of code points, [t |-> "arr", v |-> sequence] and     *)
(* [t |-> "obj", v |-> function from key names to values].  A Python dict  *)
(* or list that the code mutates in place is modelled by the value the     *)
(* caller's reference holds after the call.                                *)
(***************************************************************************)
EXTENDS Integers, Sequences, FiniteSets, TLC

VARIABLES
    data,             \* detect_format: the decoded value passed in
    format,           \* detect_format: [called, ret, exc] of the call
    keyword_sources,  \* _normalize_keywords: the *keyword_sources tuple
    keywords,         \* _normalize_keywords: [called, ret] of the first call
    keywords2,        \* _normalize_keywords: [called, ret] applied to the list returned
    gallery_data,     \* Schema Validator: the caller's document (as the calls left it)
    validation,       \* Schema Validator: [called, op, arg, ret, exc] of the last call
    file,             \* Migrator: the gallery document at file_path, on disk
    original,         \* Migrator: the file at file_path when safe_migrate_file was called
    folder_files,     \* Migrator: names of the files that exist in file_path.parent
    backup_dir,       \* Migrator: the files under backup_path and its .tmp name
    parent_window,    \* Migrator: whether an interactive caller is present
    pc,               \* Migrator: the statement safe_migrate_file is at
    local,            \* Migrator: the local `data` / `migrated_data`
    file_format,      \* Migrator: the local file_format
    checked,          \* Migrator: stage, outcome and document of the last validate_gallery
    backup_error,     \* Migrator: what _create_backup raised ("none": nothing, "unset": not run)
    normalized,       \* Migrator: [called, arg, exc, ret] of the first _normalize_image_indices
    confirm,          \* Migrator: the answer to the yes/no question: "yes", "no", "unasked"
    ret,              \* Migrator: what safe_migrate_file returned ("none" while running)
    folder,           \* Folder Processor: the files of folder_path, name -> content
    json_path,        \* Folder Processor: the gallery document of the folder, on disk
    json_before,      \* Folder Processor: that document when process_folder was called
    bak,              \* Folder Processor: the transaction's .bak copy
    hash_data,        \* Folder Processor: the caller's Hash Index, content hash -> record
    updated_hashes,   \* Folder Processor: the caller's dict of new Hash Index records
    aliased,          \* Folder Processor: whether the caller passes one dict for both
    run,              \* Folder Processor: position and locals of _process_folder_unsafe
    run_no,           \* Folder Processor: "first" or "second" call on the folder
    vision_calls,     \* Folder Processor: analyze_image invocations, per content hash
    failed,           \* Folder Processor: the per-file errors met, [file, kind]
    fp_ret,           \* Folder Processor: how process_folder ended ("none" while running)
    names_differ,     \* Folder Processor: whether folder_name differs from folder_path.name
    tx_json,          \* Folder Processor: the file <folder_path.name>.json when the names differ
    self_images,      \* Main Window: self.images, the records of the selected folder
    current_image_index,\* Main Window: the 0-based position of the current image
    gui_json,         \* Main Window: the document of the selected folder, on disk
    gui_last,         \* Main Window: the last handler called and the record current before it
    gui_exc,          \* Main Window: what the last handler raised ("none": nothing)
    export_images,    \* Export Manager: the src of each record of gallery_data['images']
    zip_output,       \* Export Manager: the zip_output argument
    max_workers,      \* Export Manager: the size of the thread pool
    futures,          \* Export Manager: the state of each submitted future, in submission order
    failed_files,     \* Export Manager: the failed_files list the tasks share
    awaited,          \* Export Manager: how many futures' result() has returned
    written,          \* Export Manager: which of manifest, preview, zip have been written
    ex_pc,            \* Export Manager: where export_gallery is, or how it ended
    callback_queue,   \* _callback_queue: the callbacks put and not yet taken
    queue_lock,       \* _queue_lock: "free", or "ui" while the queue is drained
    workers,          \* the threads of run_in_thread: unstarted, running, done
    scheduled,        \* every callback ever scheduled, in order
    executed,         \* every callback called by the drain, in order
    _cancelled,       \* CancellableTask._cancelled
    task_pc,          \* where the thread of the CancellableTask is
    reports,          \* _report_progress calls made so far
    cancel_returned   \* cancel() has been called and has returned

detectVars == <<data, format>>
kwVars == <<keyword_sources, keywords, keywords2>>
valVars == <<gallery_data, validation>>
migVars == <<file, original, folder_files, backup_dir, parent_window, pc, local,
             file_format, checked, backup_error, confirm, normalized, ret>>
fpVars == <<folder, json_path, json_before, bak, hash_data, updated_hashes, aliased, run,
            run_no, vision_calls, failed, fp_ret, names_differ, tx_json>>
guiVars == <<self_images, current_image_index, gui_json, gui_last, gui_exc>>
exVars == <<export_images, zip_output, max_workers, futures, failed_files, awaited, written, ex_pc>>
thVars == <<callback_queue, queue_lock, workers, scheduled, executed, _cancelled, task_pc, reports, cancel_returned>>
vars == <<data, format, keyword_sources, keywords, keywords2, gallery_data, validation,
          file, original, folder_files, backup_dir, parent_window, pc, local,
          file_format, checked, backup_error, confirm, normalized, ret,
          folder, json_path, json_before, bak, hash_data, updated_hashes, aliased, run,
          run_no, vision_calls, failed, fp_ret, names_differ, tx_json,
          self_images, current_image_index, gui_json, gui_last, gui_exc,
          export_images, zip_output, max_workers, futures, failed_files, awaited, written, ex_pc,
          callback_queue, queue_lock, workers, scheduled, executed, _cancelled, task_pc, reports, cancel_returned>>

-----------------------------------------------------------------------------
(* Bounds of the model.                                                    *)

\* longest keyword list enumerated for one keyword source
MaxKw == 2

\* longest images list enumerated for a document handed to the validator
MaxImages == 2

\* longest images list enumerated for a document on disk handed to the Migrator
MaxFileImages == 2

-----------------------------------------------------------------------------
(* Decoded JSON values.                                                    *)

JNull == [t |-> "null"]
JBool(b) == [t |-> "bool", v |-> b]
JNum(n) == [t |-> "num", v |-> n]
JStr(s) == [t |-> "str", v |-> s]
JArr(s) == [t |-> "arr", v |-> s]
JObj(f) == [t |-> "obj", v |-> f]

\* the dict with no key
EmptyDict == <<>>

\* isinstance(x, dict), isinstance(x, list), isinstance(x, str)
IsDict(x) == x.t = "obj"
IsList(x) == x.t = "arr"
IsStr(x) == x.t = "str"

\* k in d, for a dict d
HasKey(d, k) == k \in DOMAIN d.v

\* d.get(k, default), for a dict d
DictGet(d, k, default) == IF k \in DOMAIN d.v THEN d.v[k] ELSE default

\* d[k] = val, for a dict d
DictSet(d, k, val) ==
    JObj([q \in (DOMAIN d.v) \cup {k} |-> IF q = k THEN val ELSE d.v[q]])

\* d without the keys of ks
DictDrop(d, ks) == JObj([q \in (DOMAIN d.v) \ ks |-> d.v[q]])

\* Python truth value of a decoded JSON value
Truthy(x) ==
    CASE x.t = "null" -> FALSE
      [] x.t = "bool" -> x.v
      [] x.t = "num" -> x.v # 0
      [] x.t = "str" -> Len(x.v) > 0
      [] x.t = "arr" -> Len(x.v) > 0
      [] x.t = "obj" -> DOMAIN x.v # {}

\* sequences over S of length at most n
SeqUpTo(S, n) == UNION {[1..k -> S] : k \in 0..n}

-----------------------------------------------------------------------------
(* Format Detector.                                                        *)

\* a deliberately wrong detector: the legacy test runs before the v2 test
detect_format_images_first(d) ==
    IF IsDict(d)
    THEN IF HasKey(d, "images") THEN "v1"
         ELSE IF HasKey(d, "meta") /\ HasKey(d, "images") THEN "v2"
         ELSE "unknown"
    ELSE IF IsList(d) THEN "v1a"
    ELSE "unknown"

detect_format(d) ==
    IF IsDict(d)
    THEN IF HasKey(d, "meta") /\ HasKey(d, "images") THEN "v2"
         ELSE IF HasKey(d, "images") THEN "v1"
         ELSE "unknown"
    ELSE IF IsList(d) THEN "v1a"
    ELSE "unknown"

\* values a detected key may hold in the enumerated inputs
DetectFieldValues == {JNull, JArr(<<>>), JObj(EmptyDict)}

DetectKeys == {"meta", "images", "title"}

DetectInputs ==
    {JObj(f) : f \in UNION {[ks -> DetectFieldValues] : ks \in SUBSET DetectKeys}}
    \cup {JArr(<<>>), JArr(<<JObj(EmptyDict)>>), JArr(<<JNum(1), JNull>>)}
    \cup {JNull, JBool(TRUE), JBool(FALSE), JNum(0), JNum(7),
          JStr(<<>>), JStr(<<109, 101, 116, 97>>)}

NotCalled == [called |-> FALSE]

DetectInit ==
    /\ data \in DetectInputs
    /\ format = NotCalled

\* one call of JsonMigrator.detect_format(data); the method assigns nothing to
\* data and holds no operation that can raise
DetectFormat ==
    /\ format = NotCalled
    /\ format' = [called |-> TRUE, ret |-> detect_format(data), exc |-> "none",
                  arg |-> data]
    /\ UNCHANGED data

-----------------------------------------------------------------------------
(* Field Normalizer.                                                       *)

\* str.isspace() of one character (ASCII range)
IsSpace(c) == c \in {9, 10, 11, 12, 13, 28, 29, 30, 31, 32}

\* str.lower() of one character (ASCII range)
LowerChar(c) == IF c \in 65..90 THEN c + 32 ELSE c

\* s.lower()
Lower(s) == [i \in 1..Len(s) |-> LowerChar(s[i])]

RECURSIVE LStrip(_)
LStrip(s) == IF s # <<>> /\ IsSpace(Head(s)) THEN LStrip(Tail(s)) ELSE s

RECURSIVE RStrip(_)
RStrip(s) ==
    IF s # <<>> /\ IsSpace(s[Len(s)]) THEN RStrip(SubSeq(s, 1, Len(s) - 1)) ELSE s

\* s.strip()
Strip(s) == RStrip(LStrip(s))

\* decimal digits of a natural number
RECURSIVE Digits(_)
Digits(n) == IF n < 10 THEN <<48 + n>> ELSE Digits(n \div 10) \o <<48 + (n % 10)>>

\* str(x) for a string, a natural number, a boolean or None
PyStr(x) ==
    CASE x.t = "str" -> x.v
      [] x.t = "num" -> Digits(x.v)
      [] x.t = "bool" -> IF x.v THEN <<84, 114, 117, 101>>
                         ELSE <<70, 97, 108, 115, 101>>
      [] x.t = "null" -> <<78, 111, 110, 101>>

\* s < t in Python's string order (code point by code point)
RECURSIVE StrLess(_, _)
StrLess(s, u) ==
    IF u = <<>> THEN FALSE
    ELSE IF s = <<>> THEN TRUE
    ELSE IF Head(s) # Head(u) THEN Head(s) < Head(u)
    ELSE StrLess(Tail(s), Tail(u))

\* sorted(S) for a set S of strings
RECURSIVE Sorted(_)
Sorted(S) ==
    IF S = {} THEN <<>>
    ELSE LET m == CHOOSE x \in S : \A y \in S \ {x} : StrLess(x, y)
         IN <<m>> \o Sorted(S \ {m})

\* the strings one keyword source contributes to the set
\* (migration.py 217-220, schema_validator.py 146-149)
SourceKeywords(source) ==
    IF IsList(source)
    THEN {Lower(Strip(PyStr(source.v[i]))) :
              i \in {j \in 1..Len(source.v) : Truthy(source.v[j])}}
    ELSE IF Truthy(source) THEN {Lower(Strip(PyStr(source)))}
    ELSE {}

\* _normalize_keywords(*keyword_sources): the sorted list of strings
_normalize_keywords(sources) ==
    Sorted(UNION {SourceKeywords(sources[i]) : i \in 1..Len(sources)})

\* the list of strings as a decoded JSON array
StrList(ss) == JArr([i \in 1..Len(ss) |-> JStr(ss[i])])

\* keyword entries enumerated: "", " ", "A", "a", "b", " b", "B ", 7, 0, None, True
KwEntries ==
    {JStr(<<>>), JStr(<<32>>), JStr(<<65>>), JStr(<<97>>), JStr(<<98>>),
     JStr(<<32, 98>>), JStr(<<66, 32>>), JNum(7), JNum(0), JNull, JBool(TRUE)}

\* a second source beside the list: [], None, the bare string "A ", ["a"], " "
KwOtherSources ==
    {JArr(<<>>), JNull, JStr(<<65, 32>>), JArr(<<JStr(<<97>>)>>), JStr(<<32>>)}

KwInputs ==
    {<<JArr(l), o>> : l \in SeqUpTo(KwEntries, MaxKw), o \in KwOtherSources}

KwInit ==
    /\ keyword_sources \in KwInputs
    /\ keywords = NotCalled
    /\ keywords2 = NotCalled

\* _normalize_keywords(*keyword_sources)
NormalizeKeywords ==
    /\ keywords = NotCalled
    /\ keywords' = [called |-> TRUE, ret |-> _normalize_keywords(keyword_sources)]
    /\ UNCHANGED <<keyword_sources, keywords2>>

\* _normalize_keywords(r) for the list r the first call returned
NormalizeAgain ==
    /\ keywords # NotCalled
    /\ keywords2 = NotCalled
    /\ keywords2' = [called |-> TRUE,
                     ret |-> _normalize_keywords(<<StrList(keywords.ret)>>)]
    /\ UNCHANGED <<keyword_sources, keywords>>

-----------------------------------------------------------------------------
(* Schema Validator.                                                       *)

\* datetime.now().isoformat(): the clock's reading, "2025-01-01T00:00:00"
NowIso == <<50, 48, 50, 53, 45, 48, 49, 45, 48, 49, 84, 48, 48, 58, 48, 48, 58, 48, 48>>

\* SchemaValidator._generate_default_meta()
_generate_default_meta ==
    JObj([gallery_title |->
              JStr(<<77, 105, 103, 114, 97, 116, 101, 100, 32,
                     71, 97, 108, 108, 101, 114, 121>>),
          gallery_slug |->
              JStr(<<109, 105, 103, 114, 97, 116, 101, 100, 45,
                     103, 97, 108, 108, 101, 114, 121>>),
          created_date |-> JStr(NowIso),
          last_updated |-> JStr(NowIso),
          export_profiles |-> JArr(<<>>)])

\* img.setdefault('src', img.get('url', '')): the caller's record afterwards
SetDefaultSrc(img) ==
    IF HasKey(img, "src") THEN img
    ELSE DictSet(img, "src", DictGet(img, "url", JStr(<<>>)))

\* the entry _normalize_images appends for one record (a dict)
NormalizedImage(img) ==
    LET m == SetDefaultSrc(img)
        kw == StrList(_normalize_keywords(<<DictGet(m, "keywords", JArr(<<>>)),
                                            DictGet(m, "tags", JArr(<<>>)),
                                            DictGet(m, "categories", JArr(<<>>))>>))
        n == DictSet(m, "keywords", kw)
    IN DictDrop(n, {k \in DOMAIN n.v : n.v[k] = JNull})

\* SchemaValidator._normalize_images(images), images any decoded value:
\* [exc, ret, arg], arg being the caller's value after the call.  Iterating a
\* number, a boolean or None raises TypeError; an element without setdefault
\* (anything but a dict: a list element, a character of a string, a key of a
\* dict) raises AttributeError after the records before it were given a src.
_normalize_images(images) ==
    CASE images.t \in {"num", "bool", "null"} ->
             [exc |-> "TypeError", ret |-> JNull, arg |-> images]
      [] images.t \in {"str", "obj"} ->
             IF Truthy(images)
             THEN [exc |-> "AttributeError", ret |-> JNull, arg |-> images]
             ELSE [exc |-> "none", ret |-> JArr(<<>>), arg |-> images]
      [] images.t = "arr" ->
             LET n == Len(images.v)
                 bad == {i \in 1..n : ~IsDict(images.v[i])}
                 stop == IF bad = {} THEN n + 1
                         ELSE CHOOSE i \in bad : \A j \in bad : i <= j
                 mutated == JArr([i \in 1..n |->
                                IF i < stop THEN SetDefaultSrc(images.v[i])
                                ELSE images.v[i]])
             IN IF bad = {}
                THEN [exc |-> "none",
                      ret |-> JArr([i \in 1..n |-> NormalizedImage(images.v[i])]),
                      arg |-> mutated]
                ELSE [exc |-> "AttributeError", ret |-> JNull, arg |-> mutated]

\* SchemaValidator.ensure_v2_format(data): [exc, ret, arg], arg being the
\* caller's value after the call (a dict is completed and returned in place)
ensure_v2_format(d) ==
    IF IsList(d)
    THEN LET r == _normalize_images(d)
         IN IF r.exc # "none" THEN [exc |-> r.exc, ret |-> JNull, arg |-> r.arg]
            ELSE [exc |-> "none",
                  ret |-> JObj([meta |-> _generate_default_meta, images |-> r.ret]),
                  arg |-> r.arg]
    ELSE IF IsDict(d)
    THEN LET d1 == IF HasKey(d, "images") THEN d ELSE DictSet(d, "images", JArr(<<>>))
             d2 == IF HasKey(d1, "meta") THEN d1
                   ELSE DictSet(d1, "meta", _generate_default_meta)
             r == _normalize_images(d2.v["images"])
         IN IF r.exc # "none"
            THEN [exc |-> r.exc, ret |-> JNull, arg |-> DictSet(d2, "images", r.arg)]
            ELSE [exc |-> "none",
                  ret |-> DictSet(d2, "images", r.ret),
                  arg |-> DictSet(d2, "images", r.ret)]
    ELSE [exc |-> "none",
          ret |-> JObj([meta |-> _generate_default_meta, images |-> JArr(<<>>)]),
          arg |-> d]

\* one violation of GALLERY_SCHEMA: the place ("$", "meta", "images"), the index
\* of the image record (0 outside images), the field and the failed keyword
SchemaError(place, index, field, kind) ==
    [place |-> place, index |-> index, field |-> field, kind |-> kind]

\* JSON Schema "type" of a decoded value ("number" excludes booleans)
TypeIs(x, types) ==
    \/ "string" \in types /\ x.t = "str"
    \/ "null" \in types /\ x.t = "null"
    \/ "array" \in types /\ x.t = "arr"
    \/ "object" \in types /\ x.t = "obj"
    \/ "boolean" \in types /\ x.t = "bool"
    \/ "number" \in types /\ x.t = "num"

\* GALLERY_SCHEMA["properties"]["meta"]["properties"]: field -> allowed types
MetaProperties ==
    [gallery_title |-> {"string"},
     gallery_slug |-> {"string", "null"},
     created_date |-> {"string", "null"},
     last_updated |-> {"string", "null"},
     export_profiles |-> {"array"}]

\* GALLERY_SCHEMA["properties"]["images"]["items"]["properties"]
ImageProperties ==
    [src |-> {"string"}, url |-> {"string"}, filename |-> {"string"},
     keywords |-> {"array"}, tags |-> {"array"},
     alt_text |-> {"string"}, caption |-> {"string"}, featured |-> {"boolean"},
     order |-> {"number"}, sort_order |-> {"number"}, modified_date |-> {"string"}]

\* violations of one object against required fields and typed properties
ObjectErrors(o, place, index, required, properties) ==
    {SchemaError(place, index, f, "required") : f \in required \ DOMAIN o.v}
    \cup {SchemaError(place, index, f, "type") :
              f \in {g \in DOMAIN properties \cap DOMAIN o.v :
                         ~TypeIs(o.v[g], properties[g])}}
    \cup {SchemaError(place, index, f, "items") :
              f \in {g \in {"keywords", "tags"} \cap DOMAIN properties \cap DOMAIN o.v :
                         /\ o.v[g].t = "arr"
                         /\ \E i \in 1..Len(o.v[g].v) : o.v[g].v[i].t # "str"}}

\* Draft7Validator(GALLERY_SCHEMA).iter_errors(doc), as a set
SchemaErrors(doc) ==
    IF ~IsDict(doc) THEN {SchemaError("$", 0, "", "type")}
    ELSE
      {SchemaError("$", 0, f, "required") : f \in {"meta", "images"} \ DOMAIN doc.v}
      \cup (IF ~HasKey(doc, "meta") THEN {}
            ELSE IF ~IsDict(doc.v["meta"]) THEN {SchemaError("meta", 0, "", "type")}
            ELSE ObjectErrors(doc.v["meta"], "meta", 0, {"gallery_title"}, MetaProperties))
      \cup (IF ~HasKey(doc, "images") THEN {}
            ELSE IF ~IsList(doc.v["images"]) THEN {SchemaError("images", 0, "", "type")}
            ELSE UNION {IF ~IsDict(doc.v["images"].v[i])
                        THEN {SchemaError("images", i, "", "type")}
                        ELSE ObjectErrors(doc.v["images"].v[i], "images", i,
                                          {"src"}, ImageProperties) :
                        i \in 1..Len(doc.v["images"].v)})

\* SchemaValidator.validate_gallery(gallery_data): [exc, ret, arg]; only
\* jsonschema.ValidationError is caught, what ensure_v2_format raises escapes
validate_gallery(d) ==
    LET e == ensure_v2_format(d)
    IN IF e.exc # "none" THEN [exc |-> e.exc, ret |-> FALSE, arg |-> e.arg]
       ELSE [exc |-> "none", ret |-> SchemaErrors(e.ret) = {}, arg |-> e.arg]

\* SchemaValidator.get_validation_errors(gallery_data): [exc, ret, arg], ret
\* the reported violations (the code lists them sorted by their text)
get_validation_errors(d) ==
    LET e == ensure_v2_format(d)
    IN IF e.exc # "none" THEN [exc |-> e.exc, ret |-> {}, arg |-> e.arg]
       ELSE [exc |-> "none", ret |-> SchemaErrors(e.ret), arg |-> e.arg]

\* image entries enumerated: {}, {src: "a"}, {url: "a"}, {filename: "a"},
\* {src: null}, {src: 7}, {src: "a", tags: ["B ", " "]}, and the number 7
ValImages ==
    {JObj(EmptyDict),
     JObj([src |-> JStr(<<97>>)]),
     JObj([url |-> JStr(<<97>>)]),
     JObj([filename |-> JStr(<<97>>)]),
     JObj([src |-> JNull]),
     JObj([src |-> JNum(7)]),
     JObj([src |-> JStr(<<97>>), tags |-> JArr(<<JStr(<<66, 32>>), JStr(<<32>>)>>)]),
     JNum(7)}

ValImageLists == {JArr(l) : l \in SeqUpTo(ValImages, MaxImages)}

\* values of `images` that are no list: 7, null, "", {}, "a"
ValNonLists == {JNum(7), JNull, JStr(<<>>), JObj(EmptyDict), JStr(<<97>>)}

\* values of `meta`: {}, {gallery_title: "G"}, {gallery_title: 7}, "x"
ValMetas ==
    {JObj(EmptyDict), JObj([gallery_title |-> JStr(<<71>>)]),
     JObj([gallery_title |-> JNum(7)]), JStr(<<120>>)}

ValInputs ==
    {JObj([meta |-> m, images |-> i]) : m \in ValMetas, i \in ValImageLists \cup ValNonLists}
    \cup {JObj([images |-> i]) : i \in ValImageLists \cup ValNonLists}
    \cup {JObj([meta |-> m]) : m \in ValMetas}
    \cup {JObj(EmptyDict)}
    \cup ValImageLists
    \cup {JNull, JNum(7), JBool(TRUE), JStr(<<97>>)}

ValInit ==
    /\ gallery_data \in ValInputs
    /\ validation = NotCalled

\* validator.validate_gallery(gallery_data)
ValidateGallery ==
    LET r == validate_gallery(gallery_data)
    IN /\ validation' = [called |-> TRUE, op |-> "validate_gallery",
                         arg |-> gallery_data, exc |-> r.exc,
                         ok |-> r.ret, errors |-> {}]
       /\ gallery_data' = r.arg

\* validator.get_validation_errors(gallery_data)
GetValidationErrors ==
    LET r == get_validation_errors(gallery_data)
    IN /\ validation' = [called |-> TRUE, op |-> "get_validation_errors",
                         arg |-> gallery_data, exc |-> r.exc,
                         ok |-> FALSE, errors |-> r.ret]
       /\ gallery_data' = r.arg

-----------------------------------------------------------------------------
(* Migrator.                                                               *)

\* file_path.parent.name, "My G"
FolderName == <<77, 121, 32, 71>>

\* s.replace(" ", "-")
SpacesToDashes(s) == [i \in 1..Len(s) |-> IF s[i] = 32 THEN 45 ELSE s[i]]

\* f"image_{idx}.jpg"
ImagePlaceholder(idx) == <<105, 109, 97, 103, 101, 95>> \o Digits(idx) \o <<46, 106, 112, 103>>

\* the elements a for loop visits in a decoded value: [exc, items].  A list
\* yields its elements, a string its characters, a dict its keys; a number, a
\* boolean or None is not iterable.
Iterate(x) ==
    CASE x.t = "arr" -> [exc |-> "none", items |-> x.v]
      [] x.t = "str" -> [exc |-> "none", items |-> [i \in 1..Len(x.v) |-> JStr(<<x.v[i]>>)]]
      [] x.t = "obj" -> [exc |-> "none",
                         items |-> IF DOMAIN x.v = {} THEN <<>> ELSE <<JStr(<<107>>)>>]
      [] OTHER -> [exc |-> "TypeError", items |-> <<>>]

\* the record migrate_any_to_v2 builds for image number idx (lines 185-199)
MigratedImage(img, idx) ==
    LET url == DictGet(img, "url", JNull)
        src == IF Truthy(url) THEN url
               ELSE DictGet(img, "filename", JStr(ImagePlaceholder(idx)))
        kw == StrList(_normalize_keywords(<<DictGet(img, "keywords", JArr(<<>>)),
                                            DictGet(img, "tags", JArr(<<>>)),
                                            DictGet(img, "categories", JArr(<<>>))>>))
        rest == DictDrop(img, {"url", "filename", "tags", "categories"})
        merged == JObj([k \in {"src", "keywords"} \cup DOMAIN rest.v |->
                          IF k \in DOMAIN rest.v THEN rest.v[k]
                          ELSE IF k = "src" THEN src ELSE kw])
    IN IF ~HasKey(merged, "order") /\ HasKey(img, "sort_order")
       THEN DictSet(merged, "order", img.v["sort_order"])
       ELSE merged

\* JsonMigrator.migrate_any_to_v2(legacy_data, folder_path): [exc, ret]
migrate_any_to_v2(legacy_data) ==
    LET format_type == detect_format(legacy_data)
        base == [gallery_title |-> JStr(FolderName),
                 gallery_slug |-> JStr(SpacesToDashes(Lower(FolderName))),
                 created_date |-> JStr(NowIso),
                 last_updated |-> JStr(NowIso),
                 export_profiles |-> JArr(<<>>)]
        meta == IF format_type = "v1"
                THEN [base EXCEPT
                        !.gallery_title = DictGet(legacy_data, "title", JStr(FolderName)),
                        !.created_date = DictGet(legacy_data, "created", JStr(NowIso))]
                ELSE base
        image_list == IF format_type = "v1" THEN legacy_data.v["images"] ELSE legacy_data
        it == Iterate(image_list)
    IN IF format_type \notin {"v1", "v1a"} THEN [exc |-> "none", ret |-> legacy_data]
       ELSE IF it.exc # "none" THEN [exc |-> it.exc, ret |-> JNull]
       ELSE IF \E i \in 1..Len(it.items) : ~IsDict(it.items[i])
       THEN [exc |-> "AttributeError", ret |-> JNull]
       ELSE [exc |-> "none",
             ret |-> JObj([meta |-> JObj(meta),
                           images |-> JArr([i \in 1..Len(it.items) |->
                                              MigratedImage(it.items[i], i - 1)])])]

\* Path(p).name for a relative reference p inside the folder: the last
\* component, the folder's own name for the empty reference
PathName(p) ==
    IF p = <<>> THEN FolderName
    ELSE LET cuts == {i \in 1..Len(p) : p[i] = 47}
             last == IF cuts = {} THEN 0 ELSE CHOOSE i \in cuts : \A j \in cuts : j <= i
         IN SubSeq(p, last + 1, Len(p))

\* (Path(folder_path) / p).exists(): the folder itself for the empty reference
PathExists(p, files) == p = <<>> \/ p \in files

\* the file reference the re-indexing pass resolves for image number idx
ImageRef(img, idx) ==
    LET url == DictGet(img, "url", JNull)
    IN IF Truthy(url) THEN url ELSE DictGet(img, "src", JStr(ImagePlaceholder(idx)))

\* whether the re-indexing pass keeps image number idx: it is a dict, its
\* reference is a string (anything else raises inside the try and is skipped)
\* and the file exists
KeepsImage(img, idx, files) ==
    /\ IsDict(img)
    /\ IsStr(ImageRef(img, idx))
    /\ PathExists(ImageRef(img, idx).v, files)

\* the kept copy of an image with src, url and filename set (lines 318-324)
WithNames(img, idx) ==
    LET name == JStr(PathName(ImageRef(img, idx).v))
    IN DictSet(DictSet(DictSet(img, "src", name), "url", name), "filename", name)

\* the kept images in order
RECURSIVE KeptImages(_, _, _)
KeptImages(images, i, files) ==
    IF i > Len(images) THEN <<>>
    ELSE (IF KeepsImage(images[i], i - 1, files)
          THEN <<WithNames(images[i], i - 1)>> ELSE <<>>)
         \o KeptImages(images, i + 1, files)

\* a re-indexing pass that stores the position as text
_normalize_image_indices_order_text(gd, files) ==
    IF ~IsDict(gd) THEN [exc |-> "AttributeError", ret |-> JNull]
    ELSE IF ~IsList(DictGet(gd, "images", JNull))
    THEN [exc |-> "none", ret |-> gd]
    ELSE LET kept == KeptImages(gd.v["images"].v, 1, files)
             validated_images ==
                 [i \in 1..Len(kept) |->
                     DictSet(DictSet(DictSet(kept[i], "index", JNum(i - 1)),
                                     "order", JStr(Digits(i - 1))),
                             "total", JNum(Len(kept)))]
         IN [exc |-> "none", ret |-> DictSet(gd, "images", JArr(validated_images))]

\* a re-indexing pass that numbers the records from 1
_normalize_image_indices_from_one(gd, files) ==
    IF ~IsDict(gd) THEN [exc |-> "AttributeError", ret |-> JNull]
    ELSE IF ~IsList(DictGet(gd, "images", JNull))
    THEN [exc |-> "none", ret |-> gd]
    ELSE LET kept == KeptImages(gd.v["images"].v, 1, files)
             validated_images ==
                 [i \in 1..Len(kept) |->
                     DictSet(DictSet(DictSet(kept[i], "index", JNum(i)),
                                     "order", JNum(i)),
                             "total", JNum(Len(kept)))]
         IN [exc |-> "none", ret |-> DictSet(gd, "images", JArr(validated_images))]

\* JsonMigrator._normalize_image_indices(gd, folder_path): [exc, ret]
_normalize_image_indices(gd, files) ==
    IF ~IsDict(gd) THEN [exc |-> "AttributeError", ret |-> JNull]
    ELSE IF ~IsList(DictGet(gd, "images", JNull))
    THEN [exc |-> "none", ret |-> gd]
    ELSE LET kept == KeptImages(gd.v["images"].v, 1, files)
             validated_images ==
                 [i \in 1..Len(kept) |->
                     DictSet(DictSet(DictSet(kept[i], "index", JNum(i - 1)),
                                     "order", JNum(i - 1)),
                             "total", JNum(Len(kept)))]
         IN [exc |-> "none", ret |-> DictSet(gd, "images", JArr(validated_images))]

\* a file that does not exist
Absent == [kind |-> "absent"]

\* a file cut short by a failed copy or a failed save
Partial == [kind |-> "partial"]

\* a file holding the serialization of doc; raw tells the bytes apart:
\* "orig" as found on disk, "dump" as json.dump(indent=2) writes them
JsonFile(doc, raw) == [kind |-> "json", doc |-> doc, raw |-> raw]

\* a file whose bytes do not decode as JSON
Garbage == [kind |-> "garbage"]

\* what _create_backup can meet: success, mkdir or the read of the original
\* failing, the copy failing part-way, a copy whose digest differs, the rename
\* failing
BackupOutcomes == {"ok", "mkdir", "read", "copy", "corrupt", "rename"}

\* a backup that copies straight to the final name and verifies afterwards
_create_backup_in_place(original_file, dir, outcome) ==
    CASE outcome \in {"mkdir", "read"} -> [exc |-> "OSError", dir |-> dir]
      [] outcome = "copy" -> [exc |-> "OSError", dir |-> [dir EXCEPT !.backup = Partial]]
      [] outcome = "corrupt" -> [exc |-> "IOError", dir |-> [dir EXCEPT !.backup = Partial]]
      [] outcome = "rename" -> [exc |-> "OSError", dir |-> [dir EXCEPT !.backup = original_file]]
      [] outcome = "ok" -> [exc |-> "none", dir |-> [dir EXCEPT !.backup = original_file]]

\* JsonMigrator._create_backup(original_path) under one outcome: [exc, dir],
\* dir the backup directory afterwards (tmp: backup_path.with_suffix('.tmp'),
\* backup: backup_path, named after the second the call runs in)
_create_backup(original_file, dir, outcome) ==
    CASE outcome \in {"mkdir", "read"} -> [exc |-> "OSError", dir |-> dir]
      [] outcome = "copy" -> [exc |-> "OSError", dir |-> [dir EXCEPT !.tmp = Partial]]
      [] outcome = "corrupt" -> [exc |-> "IOError", dir |-> [dir EXCEPT !.tmp = Absent]]
      [] outcome = "rename" -> [exc |-> "OSError", dir |-> [dir EXCEPT !.tmp = original_file]]
      [] outcome = "ok" ->
             [exc |-> "none", dir |-> [dir EXCEPT !.tmp = Absent, !.backup = original_file]]

\* what saving the document can meet: success, open(file_path, 'w') refused
\* (nothing touched), json.dump failing after open has emptied the file
WriteOutcomes == {"ok", "open", "dump"}

\* `with open(file_path, 'w') as f: json.dump(doc, f, indent=2)` under one
\* outcome: [exc, file], file the file at file_path afterwards
json_dump(f, doc, outcome) ==
    CASE outcome = "open" -> [exc |-> "OSError", file |-> f]
      [] outcome = "dump" -> [exc |-> "OSError", file |-> Partial]
      [] outcome = "ok" -> [exc |-> "none", file |-> JsonFile(doc, "dump")]

NoCheck == [stage |-> "none"]

\* the call ends: return value r
Return(r) == pc' = "done" /\ ret' = r

\* lines 225-237: open, json.load, detect_format and, for a v2 document, the
\* first validate_gallery (which completes `data` in place); everything raised
\* is caught at line 302
MigLoad ==
    /\ pc = "load"
    /\ UNCHANGED <<file, original, folder_files, backup_dir, parent_window, backup_error,
                   confirm, normalized>>
    /\ IF file.kind # "json"
       THEN Return(FALSE) /\ UNCHANGED <<local, file_format, checked>>
       ELSE \E fmt \in {detect_format(file.doc)}, v \in {validate_gallery(file.doc)} :
               /\ file_format' = fmt
               /\ IF fmt # "v2"
                  THEN /\ local' = file.doc
                       /\ pc' = "backup"
                       /\ UNCHANGED <<checked, ret>>
                  ELSE /\ local' = v.arg
                       /\ checked' = [stage |-> "detecting", exc |-> v.exc,
                                      ok |-> v.ret, doc |-> v.arg]
                       /\ IF v.exc # "none" THEN Return(FALSE)
                          ELSE /\ pc' = IF v.ret THEN "v2_normalize" ELSE "backup"
                               /\ UNCHANGED ret

\* lines 240-243: re-index the valid v2 document, validate again and re-index
\* once more when that fails
MigV2Normalize ==
    /\ pc = "v2_normalize"
    /\ UNCHANGED <<file, original, folder_files, backup_dir, parent_window, backup_error,
                   confirm, file_format>>
    /\ \E n \in {_normalize_image_indices(local, folder_files)} :
       \E v \in {validate_gallery(n.ret)} :
       \E n2 \in {_normalize_image_indices(v.arg, folder_files)} :
          /\ normalized' = [called |-> TRUE, arg |-> local, exc |-> n.exc, ret |-> n.ret]
          /\ IF n.exc # "none" THEN Return(FALSE) /\ UNCHANGED <<local, checked>>
             ELSE /\ checked' = [stage |-> "already_v2", exc |-> v.exc,
                                 ok |-> v.ret, doc |-> v.arg]
                  /\ IF v.exc # "none" THEN Return(FALSE) /\ UNCHANGED local
                     ELSE IF v.ret THEN local' = v.arg /\ pc' = "v2_write" /\ UNCHANGED ret
                     ELSE IF n2.exc # "none" THEN Return(FALSE) /\ UNCHANGED local
                     ELSE local' = n2.ret /\ pc' = "v2_write" /\ UNCHANGED ret

\* lines 246-248: save the re-indexed document, return True; a failed save is
\* caught at line 302
MigV2Write ==
    /\ pc = "v2_write"
    /\ \E outcome \in WriteOutcomes :
       \E w \in {json_dump(file, local, outcome)} :
          /\ file' = w.file
          /\ Return(w.exc = "none")
    /\ UNCHANGED <<original, folder_files, backup_dir, parent_window, backup_error,
                   confirm, local,
                   file_format, checked, normalized>>

\* lines 250-260: _create_backup; a failure is reported and ends the call
MigBackup ==
    /\ pc = "backup"
    /\ \E outcome \in BackupOutcomes :
       \E b \in {_create_backup(file, backup_dir, outcome)} :
          /\ backup_dir' = b.dir
          /\ backup_error' = b.exc
          /\ IF b.exc # "none" THEN Return(FALSE)
             ELSE pc' = "confirm" /\ UNCHANGED ret
    /\ UNCHANGED <<file, original, folder_files, parent_window, local,
                   file_format, checked, confirm, normalized>>

\* a Confirming step that goes on whatever the answer
MigConfirm_proceeds ==
    /\ pc = "confirm"
    /\ IF parent_window /\ file_format # "v2"
       THEN \E answer \in BOOLEAN : confirm' = (IF answer THEN "yes" ELSE "no")
       ELSE UNCHANGED confirm
    /\ pc' = "transform"
    /\ UNCHANGED <<file, original, folder_files, backup_dir, parent_window, backup_error,
                   local, file_format, checked, normalized, ret>>

\* lines 263-273: the yes/no question, asked of an interactive caller about a
\* document that is not v2
MigConfirm ==
    /\ pc = "confirm"
    /\ IF parent_window /\ file_format # "v2"
       THEN \E answer \in BOOLEAN :
               /\ confirm' = (IF answer THEN "yes" ELSE "no")
               /\ IF ~answer THEN Return(FALSE)
                  ELSE pc' = "transform" /\ UNCHANGED ret
       ELSE pc' = "transform" /\ UNCHANGED <<ret, confirm>>
    /\ UNCHANGED <<file, original, folder_files, backup_dir, parent_window, backup_error,
                   local,
                   file_format, checked, normalized>>

\* lines 276-280: migrate_any_to_v2, then the re-indexing pass
MigTransform ==
    /\ pc = "transform"
    /\ \E m \in {migrate_any_to_v2(local)} :
       \E n \in {_normalize_image_indices(m.ret, folder_files)} :
          IF m.exc # "none"
          THEN Return(FALSE) /\ UNCHANGED <<local, normalized>>
          ELSE /\ normalized' = [called |-> TRUE, arg |-> m.ret, exc |-> n.exc, ret |-> n.ret]
               /\ IF n.exc # "none" THEN Return(FALSE) /\ UNCHANGED local
                  ELSE local' = n.ret /\ pc' = "validate" /\ UNCHANGED ret
    /\ UNCHANGED <<file, original, folder_files, backup_dir, parent_window, backup_error,
                   confirm, file_format, checked>>

\* a Validating step that saves whatever validate_gallery answered
MigValidate_ignores_result ==
    /\ pc = "validate"
    /\ \E v \in {validate_gallery(local)} :
          /\ local' = v.arg
          /\ checked' = [stage |-> "validating", exc |-> v.exc, ok |-> v.ret, doc |-> v.arg]
          /\ IF v.exc # "none" THEN Return(FALSE)
             ELSE pc' = "write" /\ UNCHANGED ret
    /\ UNCHANGED <<file, original, folder_files, backup_dir, parent_window, backup_error,
                   confirm, file_format, normalized>>

\* lines 283-293: validate_gallery on the transformed document; a failure is
\* reported with get_validation_errors and ends the call
MigValidate ==
    /\ pc = "validate"
    /\ \E v \in {validate_gallery(local)} :
          /\ local' = v.arg
          /\ checked' = [stage |-> "validating", exc |-> v.exc, ok |-> v.ret, doc |-> v.arg]
          /\ IF v.exc # "none" \/ ~v.ret THEN Return(FALSE)
             ELSE pc' = "write" /\ UNCHANGED ret
    /\ UNCHANGED <<file, original, folder_files, backup_dir, parent_window, backup_error,
                   confirm, file_format, normalized>>

\* lines 296-300: save the migrated document, return True; a failed save is
\* caught at line 302
MigWrite ==
    /\ pc = "write"
    /\ \E outcome \in WriteOutcomes :
       \E w \in {json_dump(file, local, outcome)} :
          /\ file' = w.file
          /\ Return(w.exc = "none")
    /\ UNCHANGED <<original, folder_files, backup_dir, parent_window, backup_error,
                   confirm, local,
                   file_format, checked, normalized>>

\* image records enumerated for the document on disk: {filename: "a"},
\* {url: "a", tags: ["B", "b"]}, {src: "b"}, {}, {src: 7}, the number 7,
\* {src: "b", order: 0, total: 1} and {filename: "a", keywords: ["c"], tags: ["d"]}
FileImages ==
    {JObj([filename |-> JStr(<<97>>)]),
     JObj([src |-> JStr(<<98>>), order |-> JNum(0), total |-> JNum(1)]),
     JObj([filename |-> JStr(<<97>>), keywords |-> JArr(<<JStr(<<99>>)>>),
           tags |-> JArr(<<JStr(<<100>>)>>)]),
     JObj([url |-> JStr(<<97>>), tags |-> JArr(<<JStr(<<66>>), JStr(<<98>>)>>)]),
     JObj([src |-> JStr(<<98>>)]),
     JObj([src |-> JStr(<<98>>), sort_order |-> JNum(1)]),
     JObj(EmptyDict),
     JObj([src |-> JNum(7)]),
     JNum(7)}

FileImageLists == {JArr(l) : l \in SeqUpTo(FileImages, MaxFileImages)}

\* documents enumerated on disk: current-shaped (valid meta, meta without a
\* title, images that is no list), legacy objects (with and without a title),
\* bare arrays, and unrecognized values
FileDocs ==
    {JObj([meta |-> m, images |-> i]) :
         m \in {JObj([gallery_title |-> JStr(<<71>>)]), JObj(EmptyDict)},
         i \in FileImageLists \cup {JNum(7)}}
    \cup {JObj([images |-> i]) : i \in FileImageLists \cup {JNull}}
    \cup {JObj([title |-> JStr(<<84>>), images |-> i]) : i \in FileImageLists}
    \cup FileImageLists
    \cup {JObj([title |-> JStr(<<84>>)]), JNull, JStr(<<97>>)}

\* the files that may exist beside the document: "a", "b"
FileNames == {<<97>>, <<98>>}

MigInit ==
    /\ file \in {JsonFile(d, "orig") : d \in FileDocs} \cup {Garbage, Absent}
    /\ original = file
    /\ folder_files \in SUBSET FileNames
    /\ backup_dir = [tmp |-> Absent, backup |-> Absent]
    /\ parent_window \in BOOLEAN
    /\ pc = "load"
    /\ local = JNull
    /\ file_format = "none"
    /\ checked = NoCheck
    /\ backup_error = "unset"
    /\ confirm = "unasked"
    /\ normalized = [called |-> FALSE]
    /\ ret = "none"

-----------------------------------------------------------------------------
(* Folder Processor (core/gallery_manager.py).                             *)

\* the content hashes of the image files enumerated
Hashes == {"h1", "h2"}

\* the content of a file that validate_image_file rejects
Junk == "junk"

\* self.vision.analyze_image: the labels extracted for a content
Labels(img_hash) == <<JStr(<<116>>)>>

\* new_name: f"{folder_slug}-{tag_slug}-{hash_slug}{suffix}", "g-t-" followed
\* by the hash prefix
new_name(img_hash) ==
    <<103, 45, 116, 45>> \o (IF img_hash = "h1" THEN <<49>> ELSE <<50>>)

\* the names files are dropped into the folder under: "x", "y"
DroppedNames == {<<120>>, <<121>>}

\* os.rename(src, dst) on the folder
Rename(dir, src, dst) ==
    [n \in (DOMAIN dir \ {src}) \cup {dst} |-> IF n = dst THEN dir[src] ELSE dir[n]]

\* d[k] = v on a dict held as a function
Put(d, k, v) == [x \in DOMAIN d \cup {k} |-> IF x = k THEN v ELSE d[x]]

\* the Image Record built for a new file (lines 184-195)
NewEntry(img_hash) ==
    JObj([url |-> JStr(new_name(img_hash)),
          keywords |-> JArr(Labels(img_hash)),
          featured |-> JBool(FALSE),
          order |-> JNum(0)])

\* {entry['url'] for entry in json_data}: [exc, urls]
ExistingUrls(json_data) ==
    LET it == Iterate(json_data)
    IN IF it.exc # "none" THEN [exc |-> it.exc, urls |-> {}]
       ELSE IF \E i \in 1..Len(it.items) : ~IsDict(it.items[i])
       THEN [exc |-> "TypeError", urls |-> {}]
       ELSE IF \E i \in 1..Len(it.items) : ~HasKey(it.items[i], "url")
       THEN [exc |-> "KeyError", urls |-> {}]
       ELSE [exc |-> "none", urls |-> {it.items[i].v["url"] : i \in 1..Len(it.items)}]

\* lines 198-201: once a new image has been processed, the categories of an
\* existing entry are appended to its keywords and removed
CleanedEntry(entry, k) ==
    IF k > 0 /\ HasKey(entry, "categories")
    THEN DictDrop(DictSet(entry, "keywords",
                          JArr(DictGet(entry, "keywords", JArr(<<>>)).v
                               \o entry.v["categories"].v)),
                  {"categories"})
    ELSE entry

\* lines 217-222: every existing entry gets order + len(new_entries) and its
\* tags moved to keywords when it has none
ShiftedEntry(entry, k) ==
    LET cleaned == CleanedEntry(entry, k)
        shifted == DictSet(cleaned, "order", JNum(DictGet(cleaned, "order", JNum(0)).v + k))
    IN IF HasKey(cleaned, "tags") /\ ~HasKey(cleaned, "keywords")
       THEN DictDrop(DictSet(shifted, "keywords", cleaned.v["tags"]), {"tags"})
       ELSE shifted

\* lines 225-228 with the two halves exchanged: the existing entries first
Combined_existing_first(new_entries, json_data) ==
    LET urls == {new_entries[i].v["url"] : i \in 1..Len(new_entries)}
        old == [i \in 1..Len(json_data) |-> ShiftedEntry(json_data[i], Len(new_entries))]
    IN SelectSeq(old, LAMBDA e : e.v["url"] \notin urls) \o new_entries

\* lines 225-228: new entries first, then the existing entries whose url no
\* new entry has
Combined(new_entries, json_data) ==
    LET urls == {new_entries[i].v["url"] : i \in 1..Len(new_entries)}
        old == [i \in 1..Len(json_data) |-> ShiftedEntry(json_data[i], Len(new_entries))]
    IN new_entries \o SelectSeq(old, LAMBDA e : e.v["url"] \notin urls)

\* the locals of a call that has not started its body; processed lists the
\* content hashes of the new entries in the order the loop made them
FreshRun ==
    [pc |-> "enter", json_data |-> <<>>, existing_urls |-> {}, image_files |-> {},
     listed |-> {}, new_entries |-> <<>>, processed |-> <<>>, saved |-> FALSE,
     exc |-> "none"]

\* what one file of the loop can meet: nothing, compute_image_hash failing,
\* analyze_image failing, os.rename failing
FileOutcomes == {"ok", "hash", "vision", "rename"}

\* line 76: the file the transaction copies and restores is named after
\* folder_path.name; the document of lines 127-135 is named after folder_name
TxJson == IF names_differ THEN tx_json ELSE json_path

\* _folder_transaction.__enter__ (lines 80-82): copy the document to .bak
\* when it exists; a failed copy ends process_folder at line 115
FpEnter ==
    /\ run.pc = "enter"
    /\ \E copied \in BOOLEAN :
          IF TxJson.kind = "absent"
          THEN run' = [run EXCEPT !.pc = "load"] /\ UNCHANGED <<bak, fp_ret>>
          ELSE IF copied
          THEN run' = [run EXCEPT !.pc = "load"] /\ bak' = TxJson /\ UNCHANGED fp_ret
          ELSE /\ run' = [run EXCEPT !.pc = "done", !.exc = "OSError"]
               /\ bak' = Partial
               /\ fp_ret' = "GalleryManagerError"
    /\ UNCHANGED <<folder, json_path, json_before, hash_data, updated_hashes, aliased,
                   run_no, vision_calls, failed, names_differ, tx_json>>

\* lines 127-146: load the document when it exists, collect its urls, list the
\* valid image files of the folder
FpLoad ==
    /\ run.pc = "load"
    /\ IF json_path.kind \in {"garbage", "partial"}
       THEN run' = [run EXCEPT !.pc = "exit", !.exc = "JSONDecodeError"]
       ELSE \E json_data \in {IF json_path.kind = "json" THEN json_path.doc ELSE JArr(<<>>)} :
            \E u \in {ExistingUrls(json_data)} :
               IF u.exc # "none"
               THEN run' = [run EXCEPT !.pc = "exit", !.exc = u.exc]
               ELSE \E image_files \in {{n \in DOMAIN folder : folder[n] # Junk}} :
                       run' = [run EXCEPT !.pc = IF image_files = {} THEN "save" ELSE "loop",
                                          !.json_data = json_data.v,
                                          !.existing_urls = {x.v : x \in u.urls},
                                          !.image_files = image_files,
                                          !.listed = image_files]
    /\ UNCHANGED <<folder, json_path, json_before, bak, hash_data, updated_hashes, aliased,
                   run_no, vision_calls, failed, fp_ret, names_differ, tx_json>>

\* lines 148-214: one file of the loop.  A file whose hash is indexed is
\* renamed back to its indexed name when that name is free; a file whose name
\* the document lists is skipped; a new file is analyzed, renamed, indexed in
\* updated_hashes and given a new entry at position 0.  ImageProcessingError
\* (what analyze_image raises) is caught and the file skipped; anything else
\* leaves the loop and the function.
FpFile ==
    /\ run.pc = "loop"
    /\ \E img_file \in run.image_files, outcome \in FileOutcomes :
       \E rest \in {run.image_files \ {img_file}} :
       \E next_pc \in {IF rest = {} THEN "save" ELSE "loop"} :
       \E img_hash \in {folder[img_file]} :
          IF outcome = "hash"
          THEN /\ run' = [run EXCEPT !.pc = "exit", !.exc = "OSError", !.image_files = rest]
               /\ failed' = failed \cup {[file |-> img_file, kind |-> "hash"]}
               /\ UNCHANGED <<folder, hash_data, updated_hashes, vision_calls>>
          ELSE IF img_hash \in DOMAIN hash_data
          THEN LET correct == hash_data[img_hash].filename
                   renames == correct \notin DOMAIN folder /\ img_file # correct
               IN IF renames /\ outcome = "rename"
                  THEN /\ run' = [run EXCEPT !.pc = "exit", !.exc = "OSError",
                                             !.image_files = rest]
                       /\ failed' = failed \cup {[file |-> img_file, kind |-> "rename"]}
                       /\ UNCHANGED <<folder, hash_data, updated_hashes, vision_calls>>
                  ELSE /\ folder' = IF renames THEN Rename(folder, img_file, correct)
                                    ELSE folder
                       /\ run' = [run EXCEPT !.pc = next_pc, !.image_files = rest]
                       /\ UNCHANGED <<hash_data, updated_hashes, vision_calls, failed>>
          ELSE IF img_file \in run.existing_urls
          THEN /\ run' = [run EXCEPT !.pc = next_pc, !.image_files = rest]
               /\ UNCHANGED <<folder, hash_data, updated_hashes, vision_calls, failed>>
          ELSE /\ vision_calls' = [vision_calls EXCEPT ![img_hash] = @ + 1]
               /\ IF outcome = "vision"
                  THEN /\ run' = [run EXCEPT !.pc = next_pc, !.image_files = rest]
                       /\ failed' = failed \cup {[file |-> img_file, kind |-> "vision"]}
                       /\ UNCHANGED <<folder, hash_data, updated_hashes>>
                  ELSE IF new_name(img_hash) \notin DOMAIN folder /\ outcome = "rename"
                  THEN /\ run' = [run EXCEPT !.pc = "exit", !.exc = "OSError",
                                             !.image_files = rest]
                       /\ failed' = failed \cup {[file |-> img_file, kind |-> "rename"]}
                       /\ UNCHANGED <<folder, hash_data, updated_hashes>>
                  ELSE \E upd \in {Put(updated_hashes, img_hash,
                                       [filename |-> new_name(img_hash),
                                        tags |-> Labels(img_hash)])} :
                          /\ folder' = IF new_name(img_hash) \notin DOMAIN folder
                                       THEN Rename(folder, img_file, new_name(img_hash))
                                       ELSE folder
                          /\ updated_hashes' = upd
                          /\ hash_data' = IF aliased THEN upd ELSE hash_data
                          /\ run' = [run EXCEPT !.pc = next_pc, !.image_files = rest,
                                                !.new_entries = <<NewEntry(img_hash)>> \o @,
                                                !.processed = Append(@, img_hash)]
                          /\ UNCHANGED failed
    /\ UNCHANGED <<json_path, json_before, bak, aliased, run_no, fp_ret, names_differ,
                   tx_json>>

\* what the caller's progress_callback does when line 236 calls it ("ok"
\* stands for no callback as well)
CallbackOutcomes == {"ok", "raises"}

\* lines 216-236: shift the existing entries, put the new ones first and save;
\* save_json_data answers False for a failed save and nobody looks at it; then
\* the progress callback is called, and what it raises leaves the function
FpSave ==
    /\ run.pc = "save"
    /\ \E outcome \in WriteOutcomes, callback \in CallbackOutcomes :
       \E combined \in {Combined(run.new_entries, run.json_data)} :
       \E w \in {json_dump(json_path, JArr(combined), outcome)} :
          /\ json_path' = w.file
          /\ run' = [run EXCEPT !.pc = "exit", !.saved = w.exc = "none",
                                !.exc = IF callback = "raises" THEN "CallbackError"
                                        ELSE "none"]
    /\ UNCHANGED <<folder, json_before, bak, hash_data, updated_hashes, aliased,
                   run_no, vision_calls, failed, fp_ret, names_differ, tx_json>>

\* _folder_transaction.__exit__ (lines 84-87) and lines 114-115: after an
\* exception copy .bak back, when it exists, over the file of line 76; remove
\* .bak; an exception leaves process_folder as GalleryManagerError
FpExit ==
    /\ run.pc = "exit"
    /\ \E restores \in {run.exc # "none" /\ bak.kind # "absent"} :
          /\ json_path' = IF restores /\ ~names_differ THEN bak ELSE json_path
          /\ tx_json' = IF restores /\ names_differ THEN bak ELSE tx_json
    /\ bak' = Absent
    /\ fp_ret' = IF run.exc # "none" THEN "GalleryManagerError" ELSE "returned"
    /\ run' = [run EXCEPT !.pc = "done"]
    /\ UNCHANGED <<folder, json_before, hash_data, updated_hashes, aliased,
                   run_no, vision_calls, failed, names_differ>>

\* the caller, after a call that returned, adds the new records to its Hash
\* Index and calls process_folder on the folder again
FpCallAgain ==
    /\ run.pc = "done"
    /\ run_no = "first"
    /\ fp_ret = "returned"
    /\ run_no' = "second"
    /\ hash_data' = [h \in DOMAIN hash_data \cup DOMAIN updated_hashes |->
                        IF h \in DOMAIN updated_hashes THEN updated_hashes[h]
                        ELSE hash_data[h]]
    /\ run' = FreshRun
    /\ json_before' = json_path
    /\ fp_ret' = "none"
    /\ failed' = {}
    /\ UNCHANGED <<folder, json_path, bak, updated_hashes, aliased, vision_calls,
                   names_differ, tx_json>>

\* an entry of an existing document
Entry(url, order) == JObj([url |-> JStr(url), order |-> JNum(order)])

\* the documents a folder can hold when process_folder is called: none, the
\* empty list, a list of one or two entries, a current-format object,
\* bytes that are no JSON
FolderDocs ==
    {Absent, Garbage,
     JsonFile(JArr(<<>>), "orig"),
     JsonFile(JArr(<<Entry(<<120>>, 0)>>), "orig"),
     JsonFile(JArr(<<Entry(new_name("h1"), 0), Entry(<<122>>, 1)>>), "orig"),
     JsonFile(JArr(<<JObj([url |-> JStr(<<122>>),
                           categories |-> JArr(<<JStr(<<99>>)>>)])>>), "orig"),
     JsonFile(JObj([meta |-> JObj([gallery_title |-> JStr(<<71>>)]),
                    images |-> JArr(<<>>)]), "orig")}

\* the folders enumerated: each dropped name absent or holding a content, the
\* derived name of h1 absent or holding h1
Folders ==
    {f \in UNION {[S -> Hashes \cup {Junk}] : S \in SUBSET (DroppedNames \cup {new_name("h1")})} :
        new_name("h1") \in DOMAIN f => f[new_name("h1")] = "h1"}

FpInit ==
    /\ folder \in Folders
    /\ json_path \in FolderDocs
    /\ json_before = json_path
    /\ bak = Absent
    /\ hash_data \in {EmptyDict,
                      [h \in {"h1"} |-> [filename |-> new_name("h1"), tags |-> Labels("h1")]]}
    /\ aliased \in BOOLEAN
    /\ updated_hashes = IF aliased THEN hash_data ELSE EmptyDict
    /\ run = FreshRun
    /\ run_no = "first"
    /\ vision_calls = [h \in Hashes |-> 0]
    /\ failed = {}
    /\ fp_ret = "none"
    /\ names_differ \in BOOLEAN
    /\ tx_json \in IF names_differ THEN {Absent, JsonFile(JArr(<<>>), "orig")} ELSE {Absent}

-----------------------------------------------------------------------------
(* Main Window (gui/main_window/base.py): the image list of the selected   *)
(* folder, the current position in it, and the document save_folder_data   *)
(* writes.  Positions are 0-based as in the code; self_images is           *)
(* self.images.                                                            *)

\* longest image list enumerated for the selected folder
MaxGuiImages == 2

\* a record of self.images as on_folder_select leaves it: the fields
\* validate_gallery_data assigns (schema_validator.py lines 172-180) and the
\* defaults of base.py lines 326-332
LoadedImage(name, i, n) ==
    JObj([src |-> JStr(name), url |-> JStr(name), filename |-> JStr(name),
          index |-> JNum(i), order |-> JNum(i), total |-> JNum(n),
          keywords |-> JArr(<<>>), alt_text |-> JStr(<<>>)])

\* MainWindow._get_meta
_get_meta ==
    JObj([gallery_title |-> JStr(FolderName),
          gallery_slug |-> JStr(SpacesToDashes(Lower(FolderName))),
          created_date |-> JStr(NowIso),
          last_updated |-> JStr(NowIso),
          export_profiles |-> JArr(<<>>)])

\* save_folder_data lines 504-524: what the loop makes of one copied record:
\* tags become keywords when there are none and are removed; src, url,
\* filename, alt_text and sort_order get their defaults; order is set to
\* sort_order; a missing modified_date is set
SavedImage(img) ==
    LET src == DictGet(img, "src", DictGet(img, "url", JStr(<<>>)))
        url == DictGet(img, "url", src)
        slashes == {i \in 1..Len(url.v) : url.v[i] = 47}
        basename == IF slashes = {} THEN url.v
                    ELSE SubSeq(url.v, (CHOOSE i \in slashes : \A j \in slashes : j <= i) + 1,
                                Len(url.v))
        sort_order == DictGet(img, "sort_order", DictGet(img, "order", JNum(0)))
    IN JObj([k \in ((DOMAIN img.v) \ {"tags"})
                    \cup {"src", "url", "filename", "alt_text", "sort_order", "order",
                          "modified_date"}
                    \cup (IF HasKey(img, "tags") THEN {"keywords"} ELSE {}) |->
               CASE k = "keywords" -> DictGet(img, "keywords", DictGet(img, "tags", JNull))
                 [] k = "src" -> src
                 [] k = "url" -> url
                 [] k = "filename" -> DictGet(img, "filename", JStr(basename))
                 [] k = "alt_text" -> DictGet(img, "alt_text", JStr(<<>>))
                 [] k \in {"sort_order", "order"} -> sort_order
                 [] k = "modified_date" -> DictGet(img, "modified_date", JStr(NowIso))
                 [] OTHER -> img.v[k]])

\* what the save of lines 536-558 can meet: success; the backup copy failing
\* part-way; open(json_path, 'w') failing; json.dump failing and the restore
\* from the backup succeeding; json.dump failing and the restore failing
GuiSaveOutcomes == {"ok", "backup", "open", "dump_restored", "dump_lost"}

\* save_folder_data lines 499-530: the data built from self.images = imgs
GuiData(imgs) ==
    JObj([meta |-> _get_meta,
          images |-> JArr([i \in 1..Len(imgs) |-> SavedImage(imgs[i])])])

\* save_folder_data lines 532-563, v being what validate_gallery answered
\* for the data and f the document on disk: [exc, file].  Invalid data is
\* reported and not saved; a failed save copies the backup back when the
\* backup file exists, then raises.
GuiSave(v, f, outcome) ==
    IF v.exc # "none" THEN [exc |-> v.exc, file |-> f]
    ELSE IF ~v.ret THEN [exc |-> "none", file |-> f]
    ELSE CASE outcome = "ok" -> [exc |-> "none", file |-> JsonFile(v.arg, "dump")]
           [] outcome = "backup" ->
                  [exc |-> "OSError", file |-> IF f.kind = "absent" THEN f ELSE Partial]
           [] outcome = "open" -> [exc |-> "OSError", file |-> f]
           [] outcome = "dump_restored" ->
                  [exc |-> "OSError", file |-> IF f.kind = "absent" THEN Partial ELSE f]
           [] outcome = "dump_lost" -> [exc |-> "OSError", file |-> Partial]

\* _update_current_image_display (lines 399-413): the current record is given
\* its position and the length of the list
Displayed(imgs, idx) ==
    IF imgs # <<>> /\ 0 <= idx /\ idx < Len(imgs)
    THEN [imgs EXCEPT ![idx + 1] =
             DictSet(DictSet(@, "index", JNum(idx)), "total", JNum(Len(imgs)))]
    ELSE imgs

\* lines 758-759: item = images.pop(from_index); images.insert(to_index, item)
\* (insert at a position past the end appends)
Moved(s, from_index, to_index) ==
    LET popped == SubSeq(s, 1, from_index) \o SubSeq(s, from_index + 2, Len(s))
        k == IF to_index < Len(popped) THEN to_index ELSE Len(popped)
    IN SubSeq(popped, 1, k) \o <<s[from_index + 1]>> \o SubSeq(popped, k + 1, Len(popped))

\* the file name of the record current_image_index designates
CurrentSrc ==
    IF 0 <= current_image_index /\ current_image_index < Len(self_images)
    THEN self_images[current_image_index + 1].v["src"]
    ELSE JNull

\* what a handler leaves for the claims: its name and the record that was
\* current when it was called
Called(op) == [op |-> op, current |-> CurrentSrc]

\* show_next_image (lines 571-575)
ShowNextImage ==
    /\ gui_last' = Called("show_next_image")
    /\ IF current_image_index < Len(self_images) - 1
       THEN /\ current_image_index' = current_image_index + 1
            /\ self_images' = Displayed(self_images, current_image_index + 1)
       ELSE UNCHANGED <<current_image_index, self_images>>
    /\ gui_exc' = "none"
    /\ UNCHANGED gui_json

\* show_previous_image (lines 681-685)
ShowPreviousImage ==
    /\ gui_last' = Called("show_previous_image")
    /\ IF current_image_index > 0
       THEN /\ current_image_index' = current_image_index - 1
            /\ self_images' = Displayed(self_images, current_image_index - 1)
       ELSE UNCHANGED <<current_image_index, self_images>>
    /\ gui_exc' = "none"
    /\ UNCHANGED gui_json

\* move_image_up (lines 687-695): swap with the record before, follow it,
\* save, redisplay; an exception of the save leaves the handler there
MoveImageUp ==
    /\ gui_last' = Called("move_image_up")
    /\ IF 0 < current_image_index /\ current_image_index < Len(self_images)
       THEN \E outcome \in GuiSaveOutcomes :
            \E moved \in {[self_images EXCEPT
                             ![current_image_index + 1] = self_images[current_image_index],
                             ![current_image_index] = self_images[current_image_index + 1]]} :
            \E v \in {validate_gallery(GuiData(moved))} :
            \E s \in {GuiSave(v, gui_json, outcome)} :
               /\ current_image_index' = current_image_index - 1
               /\ gui_json' = s.file
               /\ gui_exc' = s.exc
               /\ self_images' = IF s.exc = "none"
                                 THEN Displayed(moved, current_image_index - 1)
                                 ELSE moved
       ELSE /\ gui_exc' = "none"
            /\ UNCHANGED <<current_image_index, self_images, gui_json>>

\* move_image_down (lines 697-705)
MoveImageDown ==
    /\ gui_last' = Called("move_image_down")
    /\ IF 0 <= current_image_index /\ current_image_index < Len(self_images) - 1
       THEN \E outcome \in GuiSaveOutcomes :
            \E moved \in {[self_images EXCEPT
                             ![current_image_index + 1] = self_images[current_image_index + 2],
                             ![current_image_index + 2] = self_images[current_image_index + 1]]} :
            \E v \in {validate_gallery(GuiData(moved))} :
            \E s \in {GuiSave(v, gui_json, outcome)} :
               /\ current_image_index' = current_image_index + 1
               /\ gui_json' = s.file
               /\ gui_exc' = s.exc
               /\ self_images' = IF s.exc = "none"
                                 THEN Displayed(moved, current_image_index + 1)
                                 ELSE moved
       ELSE /\ gui_exc' = "none"
            /\ UNCHANGED <<current_image_index, self_images, gui_json>>

\* lines 762-768: the position of the current record after the move
ReorderedIndex(idx, from_index, to_index) ==
    IF idx = from_index THEN to_index
    ELSE IF from_index < idx /\ idx <= to_index THEN idx - 1
    ELSE IF to_index <= idx /\ idx < from_index THEN idx + 1
    ELSE idx

\* reorder_images(from_index, to_index) (lines 753-775, the definition in
\* force: it comes after the one of line 446)
ReorderImages ==
    \E from_index \in -1..Len(self_images), to_index \in -1..(Len(self_images) + 1) :
       /\ gui_last' = Called("reorder_images")
       /\ IF /\ 0 <= from_index /\ from_index < Len(self_images)
             /\ 0 <= to_index /\ to_index <= Len(self_images)
             /\ from_index # to_index
          THEN \E outcome \in GuiSaveOutcomes :
               \E moved \in {Moved(self_images, from_index, to_index)} :
               \E idx \in {ReorderedIndex(current_image_index, from_index, to_index)} :
               \E v \in {validate_gallery(GuiData(moved))} :
               \E s \in {GuiSave(v, gui_json, outcome)} :
                  /\ current_image_index' = idx
                  /\ gui_json' = s.file
                  /\ gui_exc' = s.exc
                  /\ self_images' = IF s.exc = "none" /\ idx = to_index
                                    THEN Displayed(moved, idx)
                                    ELSE moved
          ELSE /\ gui_exc' = "none"
               /\ UNCHANGED <<current_image_index, self_images, gui_json>>

\* a folder of 1..MaxGuiImages images "a", "b", ... has been selected
\* (on_folder_select, line 337: the first image is current)
GuiInit ==
    /\ \E n \in 1..MaxGuiImages :
          self_images = [i \in 1..n |-> LoadedImage(<<96 + i>>, i - 1, n)]
    /\ current_image_index = 0
    /\ gui_json = JsonFile(JObj([meta |-> _get_meta, images |-> JArr(self_images)]), "orig")
    /\ gui_last = [op |-> "none"]
    /\ gui_exc = "none"

-----------------------------------------------------------------------------
(* Export Manager (core/export_manager.py): export_gallery from the submit *)
(* loop of line 100 on, for a gallery whose records have a src (the schema *)
(* requires it), and the _export_image tasks its ThreadPoolExecutor runs.  *)

\* longest images list enumerated for an export
MaxExportImages == 3

\* the states of a future: queued in the executor, running on a worker,
\* finished with the image exported, finished with its src in failed_files
Finished == {"exported", "failed"}

\* lines 100-109, one turn of the loop: submit the next image; after the last
\* one go on to wait
ExportSubmit ==
    /\ ex_pc = "submit"
    /\ IF Len(futures) < Len(export_images)
       THEN futures' = Append(futures, "queued") /\ UNCHANGED ex_pc
       ELSE ex_pc' = "wait" /\ UNCHANGED futures
    /\ UNCHANGED <<export_images, zip_output, max_workers, failed_files, awaited, written>>

\* the executor: a free worker takes the oldest queued task
ExportTaskStart ==
    /\ Cardinality({i \in 1..Len(futures) : futures[i] = "running"}) < max_workers
    /\ \E i \in 1..Len(futures) :
          /\ futures[i] = "queued"
          /\ \A j \in 1..(i - 1) : futures[j] # "queued"
          /\ futures' = [futures EXCEPT ![i] = "running"]
    /\ UNCHANGED <<export_images, zip_output, max_workers, failed_files, awaited, written,
                   ex_pc>>

\* _export_image (lines 151-168) on a worker: the variants are generated, or
\* an exception is caught and the src appended to failed_files; the future
\* completes either way
ExportImage ==
    /\ \E i \in 1..Len(futures), ok \in BOOLEAN :
          /\ futures[i] = "running"
          /\ futures' = [futures EXCEPT ![i] = IF ok THEN "exported" ELSE "failed"]
          /\ failed_files' = IF ok THEN failed_files
                             ELSE Append(failed_files, export_images[i])
    /\ UNCHANGED <<export_images, zip_output, max_workers, awaited, written, ex_pc>>

\* lines 111-113 with the wait left out: go on whatever the futures' states
ExportWait_no_barrier ==
    /\ ex_pc = "wait"
    /\ awaited' = Len(futures)
    /\ ex_pc' = "check"
    /\ UNCHANGED <<export_images, zip_output, max_workers, futures, failed_files, written>>

\* lines 111-113, one turn of the loop: future.result() returns once that
\* future has finished
ExportWait ==
    /\ ex_pc = "wait"
    /\ IF awaited = Len(futures)
       THEN ex_pc' = "check" /\ UNCHANGED awaited
       ELSE /\ futures[awaited + 1] \in Finished
            /\ awaited' = awaited + 1
            /\ UNCHANGED ex_pc
    /\ UNCHANGED <<export_images, zip_output, max_workers, futures, failed_files, written>>

\* lines 115-131: raise GalleryExportError(problematic_files=failed_files),
\* the list itself, when it is not empty; else write the manifest, the
\* preview and, if asked, the ZIP, each of which may fail and end the call
ExportWrite ==
    /\ ex_pc = "check"
    /\ IF failed_files # <<>>
       THEN ex_pc' = "GalleryExportError" /\ UNCHANGED written
       ELSE \E fails \in {"none", "manifest", "preview", "zip"} :
               /\ fails = "zip" => zip_output
               /\ written' = CASE fails = "manifest" -> {}
                               [] fails = "preview" -> {"manifest"}
                               [] fails = "zip" -> {"manifest", "preview"}
                               [] OTHER -> {"manifest", "preview"}
                                           \cup (IF zip_output THEN {"zip"} ELSE {})
               /\ ex_pc' = IF fails = "none" THEN "returned" ELSE "OSError"
    /\ UNCHANGED <<export_images, zip_output, max_workers, futures, failed_files, awaited>>

\* export_gallery has been called on a gallery of 0..MaxExportImages records
\* with src "a" or "b", by a manager of one or two workers
ExportInit ==
    /\ export_images \in SeqUpTo({<<97>>, <<98>>}, MaxExportImages)
    /\ zip_output \in BOOLEAN
    /\ max_workers \in {1, 2}
    /\ futures = <<>>
    /\ failed_files = <<>>
    /\ awaited = 0
    /\ written = {}
    /\ ex_pc = "submit"

-----------------------------------------------------------------------------
(* Thread utilities (utils/thread_utils.py): the callback queue that       *)
(* schedule_callback fills and process_pending_callbacks drains, the       *)
(* worker threads of run_in_thread, and one CancellableTask.               *)

\* run_in_thread calls enumerated (start_batch_process makes one per click)
MaxTasks == 2

\* _report_progress calls the task function of the CancellableTask makes
MaxProgress == 2

\* schedule_callback (lines 32-35) under _queue_lock: the callback joins the
\* queue; scheduled keeps every callback ever put, in order, with whether
\* cancel() had returned by then
Put_(cb) ==
    /\ queue_lock = "free"
    /\ \E e \in {[cb |-> cb, late |-> cancel_returned]} :
          /\ callback_queue' = Append(callback_queue, e)
          /\ scheduled' = Append(scheduled, e)

\* run_in_thread (lines 54-88), called on the UI thread by
\* start_batch_process (base.py line 743): the worker thread is started
RunInThread ==
    /\ \E t \in 1..MaxTasks :
          /\ workers[t] = "unstarted"
          /\ \A u \in 1..(t - 1) : workers[u] # "unstarted"
          /\ workers' = [workers EXCEPT ![t] = "running"]
    /\ UNCHANGED <<callback_queue, queue_lock, scheduled, executed, _cancelled, task_pc,
                   reports, cancel_returned>>

\* wrapped() (lines 72-84) on the worker: the task returns and its callback
\* is scheduled, or raises and the error handler is scheduled
Wrapped ==
    /\ \E t \in 1..MaxTasks, outcome \in {"callback", "default_error_handler"} :
          /\ workers[t] = "running"
          /\ workers' = [workers EXCEPT ![t] = "done"]
          /\ Put_(<<outcome, t>>)
    /\ UNCHANGED <<queue_lock, executed, _cancelled, task_pc, reports, cancel_returned>>

\* process_pending_callbacks (lines 37-47), a step of it on the UI thread:
\* take _queue_lock; then, while the queue is not empty, take the oldest
\* callback and call it (what it raises goes to default_error_handler);
\* release the lock when the queue is empty
ProcessPendingCallbacks ==
    /\ IF queue_lock = "free"
       THEN queue_lock' = "ui" /\ UNCHANGED <<callback_queue, executed>>
       ELSE IF callback_queue # <<>>
       THEN /\ executed' = Append(executed, Head(callback_queue))
            /\ callback_queue' = Tail(callback_queue)
            /\ UNCHANGED queue_lock
       ELSE queue_lock' = "free" /\ UNCHANGED <<callback_queue, executed>>
    /\ UNCHANGED <<workers, scheduled, _cancelled, task_pc, reports, cancel_returned>>

\* CancellableTask.start (lines 184-192)
TaskStart ==
    /\ task_pc = "unstarted"
    /\ task_pc' = "task"
    /\ _cancelled' = FALSE
    /\ UNCHANGED <<callback_queue, queue_lock, workers, scheduled, executed, reports,
                   cancel_returned>>

\* _report_progress (lines 206-223), called by the task function, under
\* the task's lock: nothing is scheduled once _cancelled is set
ReportProgress ==
    /\ task_pc = "task"
    /\ reports < MaxProgress
    /\ reports' = reports + 1
    /\ IF _cancelled
       THEN UNCHANGED <<callback_queue, scheduled>>
       ELSE Put_(<<"progress", reports + 1>>)
    /\ UNCHANGED <<queue_lock, workers, executed, _cancelled, task_pc, cancel_returned>>

\* _run (lines 194-204): the task function returns or raises, and
\* self._cancelled is read, outside the lock, to decide whether the
\* completion callback (or the error handler) is to be scheduled
TaskReturn ==
    /\ task_pc = "task"
    /\ \E outcome \in {"completion", "default_error_handler"} :
          task_pc' = IF _cancelled THEN "done" ELSE outcome
    /\ UNCHANGED <<callback_queue, queue_lock, workers, scheduled, executed, _cancelled,
                   reports, cancel_returned>>

\* _run (lines 199 and 202-204): the schedule_callback that follows the read
TaskSchedule ==
    /\ task_pc \in {"completion", "default_error_handler"}
    /\ Put_(<<task_pc, 0>>)
    /\ task_pc' = "done"
    /\ UNCHANGED <<queue_lock, workers, executed, _cancelled, reports, cancel_returned>>

\* CancellableTask.cancel (lines 225-228), under the task's lock
Cancel ==
    /\ task_pc # "unstarted"
    /\ ~cancel_returned
    /\ _cancelled' = TRUE
    /\ cancel_returned' = TRUE
    /\ UNCHANGED <<callback_queue, queue_lock, workers, scheduled, executed, task_pc,
                   reports>>

\* nothing started yet, the queue empty
ThInit ==
    /\ callback_queue = <<>> /\ queue_lock = "free"
    /\ workers = [t \in 1..MaxTasks |-> "unstarted"]
    /\ scheduled = <<>> /\ executed = <<>>
    /\ _cancelled = FALSE /\ task_pc = "unstarted" /\ reports = 0
    /\ cancel_returned = FALSE

-----------------------------------------------------------------------------
(* Specifications.  Each runs one component; the state of the others is    *)
(* idle and stays so.                                                      *)

Idle == [called |-> FALSE]

DetectIdle == data = JNull /\ format = Idle
KwIdle == keyword_sources = <<>> /\ keywords = Idle /\ keywords2 = Idle
ValIdle == gallery_data = JNull /\ validation = Idle
MigIdle ==
    /\ file = Absent /\ original = Absent /\ folder_files = {}
    /\ backup_dir = [tmp |-> Absent, backup |-> Absent]
    /\ parent_window = FALSE /\ pc = "idle" /\ local = JNull
    /\ file_format = "none" /\ checked = NoCheck /\ backup_error = "unset"
    /\ confirm = "unasked" /\ normalized = [called |-> FALSE] /\ ret = "none"

FpIdle ==
    /\ folder = EmptyDict /\ json_path = Absent /\ json_before = Absent /\ bak = Absent
    /\ hash_data = EmptyDict /\ updated_hashes = EmptyDict /\ aliased = FALSE
    /\ run = [pc |-> "idle"] /\ run_no = "none" /\ vision_calls = EmptyDict
    /\ failed = {} /\ fp_ret = "none" /\ names_differ = FALSE /\ tx_json = Absent

GuiIdle ==
    /\ self_images = <<>> /\ current_image_index = 0 /\ gui_json = Absent
    /\ gui_last = [op |-> "idle"] /\ gui_exc = "none"

ExIdle ==
    /\ export_images = <<>> /\ zip_output = FALSE /\ max_workers = 0 /\ futures = <<>>
    /\ failed_files = <<>> /\ awaited = 0 /\ written = {} /\ ex_pc = "idle"

ThIdle ==
    /\ callback_queue = <<>> /\ queue_lock = "idle" /\ workers = <<>>
    /\ scheduled = <<>> /\ executed = <<>> /\ _cancelled = FALSE
    /\ task_pc = "idle" /\ reports = 0 /\ cancel_returned = FALSE

InitDetect == DetectInit /\ KwIdle /\ ValIdle /\ MigIdle /\ FpIdle /\ GuiIdle /\ ExIdle /\ ThIdle
NextDetect == DetectFormat /\ UNCHANGED <<kwVars, valVars, migVars, fpVars, guiVars, exVars, thVars>>
SpecDetect == InitDetect /\ [][NextDetect]_vars

InitKw == KwInit /\ DetectIdle /\ ValIdle /\ MigIdle /\ FpIdle /\ GuiIdle /\ ExIdle /\ ThIdle
NextKw ==
    \/ NormalizeKeywords /\ UNCHANGED <<detectVars, valVars, migVars, fpVars, guiVars, exVars, thVars>>
    \/ NormalizeAgain /\ UNCHANGED <<detectVars, valVars, migVars, fpVars, guiVars, exVars, thVars>>
SpecKw == InitKw /\ [][NextKw]_vars

InitVal == ValInit /\ DetectIdle /\ KwIdle /\ MigIdle /\ FpIdle /\ GuiIdle /\ ExIdle /\ ThIdle
NextVal ==
    \/ ValidateGallery /\ UNCHANGED <<detectVars, kwVars, migVars, fpVars, guiVars, exVars, thVars>>
    \/ GetValidationErrors /\ UNCHANGED <<detectVars, kwVars, migVars, fpVars, guiVars, exVars, thVars>>
SpecVal == InitVal /\ [][NextVal]_vars

InitMig == MigInit /\ DetectIdle /\ KwIdle /\ ValIdle /\ FpIdle /\ GuiIdle /\ ExIdle /\ ThIdle
NextMig ==
    \/ MigLoad /\ UNCHANGED <<detectVars, kwVars, valVars, fpVars, guiVars, exVars, thVars>>
    \/ MigV2Normalize /\ UNCHANGED <<detectVars, kwVars, valVars, fpVars, guiVars, exVars, thVars>>
    \/ MigV2Write /\ UNCHANGED <<detectVars, kwVars, valVars, fpVars, guiVars, exVars, thVars>>
    \/ MigBackup /\ UNCHANGED <<detectVars, kwVars, valVars, fpVars, guiVars, exVars, thVars>>
    \/ MigConfirm /\ UNCHANGED <<detectVars, kwVars, valVars, fpVars, guiVars, exVars, thVars>>
    \/ MigTransform /\ UNCHANGED <<detectVars, kwVars, valVars, fpVars, guiVars, exVars, thVars>>
    \/ MigValidate /\ UNCHANGED <<detectVars, kwVars, valVars, fpVars, guiVars, exVars, thVars>>
    \/ MigWrite /\ UNCHANGED <<detectVars, kwVars, valVars, fpVars, guiVars, exVars, thVars>>
SpecMig == InitMig /\ [][NextMig]_vars

InitFp == FpInit /\ DetectIdle /\ KwIdle /\ ValIdle /\ MigIdle /\ GuiIdle /\ ExIdle /\ ThIdle
NextFp ==
    \/ FpEnter /\ UNCHANGED <<detectVars, kwVars, valVars, migVars, guiVars, exVars, thVars>>
    \/ FpLoad /\ UNCHANGED <<detectVars, kwVars, valVars, migVars, guiVars, exVars, thVars>>
    \/ FpFile /\ UNCHANGED <<detectVars, kwVars, valVars, migVars, guiVars, exVars, thVars>>
    \/ FpSave /\ UNCHANGED <<detectVars, kwVars, valVars, migVars, guiVars, exVars, thVars>>
    \/ FpExit /\ UNCHANGED <<detectVars, kwVars, valVars, migVars, guiVars, exVars, thVars>>
    \/ FpCallAgain /\ UNCHANGED <<detectVars, kwVars, valVars, migVars, guiVars, exVars, thVars>>
SpecFp == InitFp /\ [][NextFp]_vars

InitGui == GuiInit /\ DetectIdle /\ KwIdle /\ ValIdle /\ MigIdle /\ FpIdle /\ ExIdle /\ ThIdle
NextGui ==
    \/ ShowNextImage /\ UNCHANGED <<detectVars, kwVars, valVars, migVars, fpVars, exVars, thVars>>
    \/ ShowPreviousImage /\ UNCHANGED <<detectVars, kwVars, valVars, migVars, fpVars, exVars, thVars>>
    \/ MoveImageUp /\ UNCHANGED <<detectVars, kwVars, valVars, migVars, fpVars, exVars, thVars>>
    \/ MoveImageDown /\ UNCHANGED <<detectVars, kwVars, valVars, migVars, fpVars, exVars, thVars>>
    \/ ReorderImages /\ UNCHANGED <<detectVars, kwVars, valVars, migVars, fpVars, exVars, thVars>>
SpecGui == InitGui /\ [][NextGui]_vars

InitEx == ExportInit /\ DetectIdle /\ KwIdle /\ ValIdle /\ MigIdle /\ FpIdle /\ GuiIdle /\ ThIdle
NextEx ==
    \/ ExportSubmit /\ UNCHANGED <<detectVars, kwVars, valVars, migVars, fpVars, guiVars, thVars>>
    \/ ExportTaskStart /\ UNCHANGED <<detectVars, kwVars, valVars, migVars, fpVars, guiVars, thVars>>
    \/ ExportImage /\ UNCHANGED <<detectVars, kwVars, valVars, migVars, fpVars, guiVars, thVars>>
    \/ ExportWait /\ UNCHANGED <<detectVars, kwVars, valVars, migVars, fpVars, guiVars, thVars>>
    \/ ExportWrite /\ UNCHANGED <<detectVars, kwVars, valVars, migVars, fpVars, guiVars, thVars>>
SpecEx == InitEx /\ [][NextEx]_vars

InitTh == ThInit /\ DetectIdle /\ KwIdle /\ ValIdle /\ MigIdle /\ FpIdle /\ GuiIdle /\ ExIdle
NextTh ==
    \/ RunInThread /\ UNCHANGED <<detectVars, kwVars, valVars, migVars, fpVars, guiVars, exVars>>
    \/ Wrapped /\ UNCHANGED <<detectVars, kwVars, valVars, migVars, fpVars, guiVars, exVars>>
    \/ ProcessPendingCallbacks /\ UNCHANGED <<detectVars, kwVars, valVars, migVars, fpVars, guiVars, exVars>>
    \/ TaskStart /\ UNCHANGED <<detectVars, kwVars, valVars, migVars, fpVars, guiVars, exVars>>
    \/ ReportProgress /\ UNCHANGED <<detectVars, kwVars, valVars, migVars, fpVars, guiVars, exVars>>
    \/ TaskReturn /\ UNCHANGED <<detectVars, kwVars, valVars, migVars, fpVars, guiVars, exVars>>
    \/ TaskSchedule /\ UNCHANGED <<detectVars, kwVars, valVars, migVars, fpVars, guiVars, exVars>>
    \/ Cancel /\ UNCHANGED <<detectVars, kwVars, valVars, migVars, fpVars, guiVars, exVars>>
SpecTh == InitTh /\ [][NextTh]_vars

\* The scheduling the code guarantees: a started thread runs on and gets
\* _queue_lock whenever it is free often enough (Wrapped, TaskReturn,
\* TaskSchedule), and a drain that has begun runs to its end.  The user's
\* actions (RunInThread, TaskStart, Cancel) and the task function's calls
\* of _report_progress may or may not happen.  No code of the repository
\* calls process_pending_callbacks (main.py line 75 runs Tk's mainloop, and
\* no after() timer polls the queue), so nothing makes a drain begin.
SpecThFair ==
    /\ SpecTh
    /\ SF_thVars(Wrapped)
    /\ WF_thVars(TaskReturn)
    /\ SF_thVars(TaskSchedule)
    /\ WF_thVars(queue_lock = "ui" /\ ProcessPendingCallbacks)

-----------------------------------------------------------------------------
(* Format Detector: claims.                                                *)

-----------------------------------------------------------------------------
(* Field Normalizer: claims.                                               *)

\* C2: for every tuple of keyword sources the normalizer returns a strictly
\* ascending list (sorted, no duplicates) of lowercase strings that holds no
\* empty string, also when entries are empty or only whitespace.
C2_NormalizedSortedLowerNonEmpty ==
    keywords.called =>
        LET r == keywords.ret
        IN /\ \A i \in 1..(Len(r) - 1) : StrLess(r[i], r[i + 1])
           /\ \A i \in 1..Len(r) : r[i] = Lower(r[i])
           /\ \A i \in 1..Len(r) : r[i] # <<>>

\* C3: applying the normalizer to the list it returned yields that list again.
C3_NormalizeIdempotent ==
    keywords2.called => keywords2.ret = keywords.ret

-----------------------------------------------------------------------------
(* Schema Validator: claims.                                               *)

\* C4: validation is a dry run: after validate_gallery or
\* get_validation_errors the caller's document is what it was before the call.
C4_ValidationLeavesDocument ==
    validation.called => gallery_data = validation.arg

\* the image records of a document handed to the validator: the elements of a
\* bare list, or of the `images` list of an object
ImageRecords(d) ==
    IF IsList(d) THEN d.v
    ELSE IF IsDict(d) /\ HasKey(d, "images") /\ IsList(d.v["images"]) THEN d.v["images"].v
    ELSE <<>>

\* C5: for every document whose `meta` object is present and lacks
\* gallery_title, validate_gallery returns False and get_validation_errors
\* returns a list with an entry naming the missing gallery_title.
C5_MissingTitleReported ==
    (/\ validation.called
     /\ IsDict(validation.arg)
     /\ HasKey(validation.arg, "meta")
     /\ IsDict(validation.arg.v["meta"])
     /\ ~HasKey(validation.arg.v["meta"], "gallery_title"))
    => /\ validation.exc = "none"
       /\ validation.op = "validate_gallery" => ~validation.ok
       /\ validation.op = "get_validation_errors" =>
              SchemaError("meta", 0, "gallery_title", "required") \in validation.errors

\* C6: for every document holding an image record with no `src` and no legacy
\* identifier alias, validate_gallery returns False and get_validation_errors
\* reports that record.
C6_MissingSrcReported ==
    validation.called =>
        \A i \in 1..Len(ImageRecords(validation.arg)) :
            LET img == ImageRecords(validation.arg)[i]
            IN (IsDict(img) /\ DOMAIN img.v \cap {"src", "url", "filename"} = {})
               => /\ validation.exc = "none"
                  /\ validation.op = "validate_gallery" => ~validation.ok
                  /\ validation.op = "get_validation_errors" =>
                         \E e \in validation.errors : e.place = "images" /\ e.index = i

\* C7: for every decoded JSON value validate_gallery and get_validation_errors
\* return a result and raise no exception.
C7_ValidationNeverRaises ==
    validation.called => validation.exc = "none"

-----------------------------------------------------------------------------
(* Migrator: claims.                                                       *)

\* C8: if the Schema Validator reports an error for the transformed document
\* in the Validating step, safe_migrate_file returns False and the document on
\* disk has the bytes it had before the call.
C8_ValidationFailureLeavesFile ==
    (checked.stage = "validating" /\ ~checked.ok)
    => /\ pc = "done"
       /\ ret = FALSE
       /\ file = original

\* C8 witness: the Validating step found the transformed document invalid
\* (no exception) after a backup was taken, and the call has returned
C8_Witness ==
    /\ pc = "done"
    /\ checked.stage = "validating"
    /\ checked.exc = "none"
    /\ ~checked.ok
    /\ backup_dir.backup = original

\* C9: every write to the document's path (either branch of
\* safe_migrate_file) follows a passing validate_gallery of exactly the
\* document written, and no document that fails validation is written.
C9_WriteOnlyAfterPassingCheck ==
    file # original
    => /\ checked.stage \in {"already_v2", "validating"}
       /\ checked.exc = "none"
       /\ checked.ok
       /\ checked.doc = local
       /\ validate_gallery(local).exc = "none"
       /\ validate_gallery(local).ret
       /\ file \in {JsonFile(local, "dump"), Partial}

\* C9 witness: the already-current branch has saved a re-indexed document
\* that dropped an image record whose file is missing
C9_Witness ==
    /\ pc = "done"
    /\ ret = TRUE
    /\ checked.stage = "already_v2"
    /\ file.kind = "json"
    /\ file.raw = "dump"
    /\ Len(file.doc.v["images"].v) < Len(original.doc.v["images"].v)

\* the document safe_migrate_file holds when it reaches the backup step
LoadedData ==
    IF detect_format(original.doc) = "v2" THEN validate_gallery(original.doc).arg
    ELSE original.doc

\* C10: if the backup copy cannot be created or its digest differs from the
\* original's, safe_migrate_file returns False without transforming or
\* writing, the original is unchanged and no file exists under the final
\* backup name.
C10_BackupFailureAborts ==
    backup_error \notin {"unset", "none"}
    => /\ pc = "done"
       /\ ret = FALSE
       /\ file = original
       /\ local = LoadedData
       /\ checked.stage \notin {"validating", "already_v2"}
       /\ backup_dir.backup = Absent

\* C10 witness: the copy's digest differed (IOError) and the call has returned
C10_Witness ==
    /\ pc = "done"
    /\ backup_error = "IOError"
    /\ backup_dir.tmp = Absent

\* C11: every overwrite of the gallery document by safe_migrate_file (the
\* already-current branch included) is preceded, in the same call, by a
\* completed backup copy holding the document as it was before the overwrite.
C11_OverwriteAfterBackup ==
    file # original => backup_dir.backup = original

\* C12: the yes/no question is asked only after the backup succeeded and
\* before any transformation or write; when the interactive caller answers
\* no, safe_migrate_file returns False and the document on disk has the bytes
\* it had before the call.
C12_DeclinedLeavesFile ==
    [][confirm' # confirm =>
          /\ parent_window
          /\ backup_error = "none"
          /\ backup_dir.backup = original
          /\ file = original
          /\ local = LoadedData
          /\ ~normalized.called
          /\ checked.stage \notin {"validating", "already_v2"}
          /\ confirm' = "no" => (pc' = "done" /\ ret' = FALSE /\ file' = original)]_vars

\* C12 witness: the caller answered no and the call has returned
C12_Witness ==
    /\ pc = "done"
    /\ confirm = "no"
    /\ ret = FALSE
    /\ backup_dir.backup = original

\* C13: whatever stage of safe_migrate_file fails, the file at file_path is
\* either the one found at the call or the complete serialization of the
\* validated document; it is never left truncated, and the call returns
\* False.
C13_FailureLeavesWholeFile ==
    /\ pc = "done" => ret \in BOOLEAN
    /\ \/ file = original
       \/ /\ checked.stage \in {"already_v2", "validating"}
          /\ checked.ok
          /\ file = JsonFile(checked.doc, "dump")

\* whether record number idx (from 0) of an images list names, by url or else
\* src or else its placeholder, a file that exists in the folder
ReferencesFile(img, idx) ==
    /\ IsDict(img)
    /\ IsStr(ImageRef(img, idx))
    /\ ImageRef(img, idx).v \in folder_files

\* the fields the re-indexing pass assigns
ReindexedFields == {"src", "url", "filename", "index", "order", "total"}

\* C15: the re-indexing pass returns exactly the image records whose
\* referenced file exists in the folder, in their original relative order
\* (each as it was, apart from the fields the pass assigns), and sets `total`
\* of every surviving record to the number of surviving records.
C15_ReindexKeepsExisting ==
    (/\ normalized.called
     /\ normalized.exc = "none"
     /\ IsList(DictGet(normalized.arg, "images", JNull)))
    => LET imgs == normalized.arg.v["images"].v
           out == normalized.ret.v["images"].v
           keep == {i \in 1..Len(imgs) : ReferencesFile(imgs[i], i - 1)}
           nth(j) == CHOOSE i \in keep : Cardinality({k \in keep : k < i}) = j - 1
       IN /\ Len(out) = Cardinality(keep)
          /\ \A j \in 1..Len(out) :
                 /\ DictDrop(out[j], ReindexedFields) = DictDrop(imgs[nth(j)], ReindexedFields)
                 /\ out[j].v["src"] = ImageRef(imgs[nth(j)], nth(j) - 1)
                 /\ out[j].v["total"] = JNum(Len(out))

\* whether the document found at the call is current-format and valid, every
\* image record references an existing file, and order and total are already
\* 0..N-1 and N
AlreadyNormalized ==
    /\ original.kind = "json"
    /\ detect_format(original.doc) = "v2"
    /\ validate_gallery(original.doc).exc = "none"
    /\ validate_gallery(original.doc).ret
    /\ LET imgs == original.doc.v["images"].v
       IN \A i \in 1..Len(imgs) :
             /\ ReferencesFile(imgs[i], i - 1)
             /\ DictGet(imgs[i], "order", JNull) = JNum(i - 1)
             /\ DictGet(imgs[i], "total", JNull) = JNum(Len(imgs))

\* C16: for a current-format, valid document whose records all reference
\* existing files and whose order/total are already right, safe_migrate_file
\* returns True and the document on disk afterwards equals the document
\* before the call (a save that fails is the only way to return False).
C16_RoundTripUnchanged ==
    (AlreadyNormalized /\ pc = "done")
    => \/ ret = TRUE /\ file.kind = "json" /\ file.doc = original.doc
       \/ ret = FALSE /\ checked.stage = "already_v2" /\ checked.ok
                      /\ file \in {original, Partial}

\* whether the document found at the call is a legacy object or a bare array
\* of records
LegacyImages ==
    IF original.kind # "json" THEN <<>>
    ELSE IF detect_format(original.doc) = "v1a" THEN original.doc.v
    ELSE IF detect_format(original.doc) = "v1" /\ IsList(original.doc.v["images"])
    THEN original.doc.v["images"].v
    ELSE <<>>

\* the legacy identifier of record number idx: url, else filename, else src,
\* else image_<idx>.jpg
LegacyIdentifier(img, idx) ==
    IF HasKey(img, "url") THEN img.v["url"]
    ELSE IF HasKey(img, "filename") THEN img.v["filename"]
    ELSE IF HasKey(img, "src") THEN img.v["src"]
    ELSE JStr(ImagePlaceholder(idx))

\* a legacy document has been migrated and saved with every record kept
MigratedAll ==
    /\ original.kind = "json"
    /\ detect_format(original.doc) \in {"v1", "v1a"}
    /\ pc = "done"
    /\ ret = TRUE
    /\ Len(file.doc.v["images"].v) = Len(LegacyImages)

\* C17: each image record of a migrated legacy document has `keywords` equal
\* to the Field Normalizer applied to the record's keywords, tags and
\* categories together, and `src` equal to the record's legacy identifier, or
\* image_<position>.jpg when it has none.
C17_MigratedKeywordsAndSrc ==
    MigratedAll
    => \A i \in 1..Len(LegacyImages) :
          LET img == LegacyImages[i]
              out == file.doc.v["images"].v[i]
          IN /\ out.v["keywords"] =
                    StrList(_normalize_keywords(<<DictGet(img, "keywords", JArr(<<>>)),
                                                  DictGet(img, "tags", JArr(<<>>)),
                                                  DictGet(img, "categories", JArr(<<>>))>>))
             /\ out.v["src"] = LegacyIdentifier(img, i - 1)

\* whether the document found at the call is a bare array of records whose
\* files all exist
BareArrayAllExist ==
    /\ original.kind = "json"
    /\ IsList(original.doc)
    /\ \A i \in 1..Len(original.doc.v) :
          /\ IsDict(original.doc.v[i])
          /\ IsStr(LegacyIdentifier(original.doc.v[i], i - 1))
          /\ LegacyIdentifier(original.doc.v[i], i - 1).v \in folder_files

\* C18: migrating a bare array of k records whose files all exist saves a
\* current-format document whose meta.gallery_title is the folder's name and
\* whose k records keep their src and carry order = position and total = k;
\* the call returns False only when the backup fails, the caller declines or
\* the save fails.
C18_BareArrayMigrated ==
    (BareArrayAllExist /\ pc = "done")
    => \/ /\ ret = TRUE
          /\ file.kind = "json"
          /\ detect_format(file.doc) = "v2"
          /\ file.doc.v["meta"].v["gallery_title"] = JStr(FolderName)
          /\ Len(file.doc.v["images"].v) = Len(original.doc.v)
          /\ \A i \in 1..Len(original.doc.v) :
                LET out == file.doc.v["images"].v[i]
                IN /\ out.v["src"] = LegacyIdentifier(original.doc.v[i], i - 1)
                   /\ out.v["order"] = JNum(i - 1)
                   /\ out.v["total"] = JNum(Len(original.doc.v))
       \/ /\ ret = FALSE
          /\ \/ backup_error \notin {"unset", "none"}
             \/ confirm = "no"
             \/ checked.stage = "validating" /\ checked.ok /\ file \in {original, Partial}

\* C18 witness: a bare array of two records has been migrated and saved
C18_Witness ==
    /\ BareArrayAllExist
    /\ Len(original.doc.v) = 2
    /\ pc = "done"
    /\ ret = TRUE

-----------------------------------------------------------------------------
(* Folder Processor: claims.                                               *)

\* C14: after a Folder Processor run that returned and saved, the `order`
\* values of the saved document's image records, read in array order, are
\* 0, 1, ..., N-1, also when the run added two or more new records.
C14_OrderContiguous ==
    (run.pc = "done" /\ fp_ret = "returned" /\ run.saved)
    => LET imgs == ImageRecords(json_path.doc)
       IN \A i \in 1..Len(imgs) : DictGet(imgs[i], "order", JNull) = JNum(i - 1)

\* C19: label extraction (analyze_image) is invoked at most once per distinct
\* content hash, whether the files with identical bytes come in one folder
\* scan or in successive runs and whatever their names.
C19_ExtractionAtMostOnce ==
    \A h \in DOMAIN vision_calls : vision_calls[h] <= 1

\* C20: a processing error on one file (label extraction, hash or rename
\* failure) skips only that file: the loop visits every other listed file,
\* the document is saved and process_folder returns without raising.
C20_FileErrorSkipsOnlyThatFile ==
    (failed # {} /\ run.pc = "done")
    => /\ fp_ret = "returned"
       /\ run.exc = "none"
       /\ run.image_files = {}

\* the image records of the document as it was when process_folder was called
RecordsBefore == IF json_before.kind = "json" THEN ImageRecords(json_before.doc) ELSE <<>>

\* the identifiers of the records the run created
NewUrls == {JStr(new_name(run.processed[i])) : i \in 1..Len(run.processed)}

\* the records of before the call whose identifier no new record has
KeptBefore == SelectSeq(RecordsBefore, LAMBDA e : e.v["url"] \notin NewUrls)

\* C21: after a run that creates k new records, the saved document lists the
\* k new records first, most recently processed first, then the pre-existing
\* records in their previous relative order with each order increased by k;
\* a pre-existing record whose identifier a new record has is omitted.
C21_NewFirstThenShifted ==
    (run.saved /\ (run.pc = "exit" \/ fp_ret = "returned"))
    => LET k == Len(run.processed)
           out == ImageRecords(json_path.doc)
       IN /\ json_path.kind = "json"
          /\ Len(out) = k + Len(KeptBefore)
          /\ \A i \in 1..k : out[i].v["url"] = JStr(new_name(run.processed[k + 1 - i]))
          /\ \A i \in 1..Len(KeptBefore) :
                /\ out[k + i].v["url"] = KeptBefore[i].v["url"]
                /\ HasKey(KeptBefore[i], "order")
                   => out[k + i].v["order"] = JNum(KeptBefore[i].v["order"].v + k)

\* a returned run that made two different new records, kept one of two
\* pre-existing records and dropped the other
C21_Witness ==
    /\ run.saved /\ fp_ret = "returned"
    /\ Len(run.processed) = 2 /\ run.processed[1] # run.processed[2]
    /\ Len(RecordsBefore) = 2 /\ Len(KeptBefore) = 1
    /\ Len(ImageRecords(json_path.doc)) = 3


\* C22: in every document the Folder Processor writes, no two image records
\* have the same identifier (url), also when two new files receive the same
\* derived filename in one run.
C22_UniqueIdentifiers ==
    (run.saved /\ run.pc \in {"exit", "done"} /\ json_path.kind = "json")
    => LET imgs == ImageRecords(json_path.doc)
       IN \A i, j \in 1..Len(imgs) : i # j => imgs[i].v["url"] # imgs[j].v["url"]

\* C27: a scanned file whose content hash is in the Hash Index is renamed to
\* the indexed canonical name when its name differs, so that after the run
\* no file with that content remains under another name.
C27_IndexedContentUnderCanonicalName ==
    (run.pc = "done" /\ fp_ret = "returned")
    => \A f \in run.listed \cap DOMAIN folder :
          folder[f] \in DOMAIN hash_data => f = hash_data[folder[f]].filename

\* C28: when process_folder raises GalleryManagerError the document on disk
\* is byte-identical to what it was before the call, or still absent, and
\* the .bak copy has been removed; also when folder_name differs from the
\* name of the folder path.
C28_RaiseRestoresDocument ==
    fp_ret = "GalleryManagerError" => json_path = json_before /\ bak = Absent

\* C29: whenever a record for a content hash has been added to
\* updated_hashes, the saved document of the folder holds an image record
\* whose identifier is the record's filename; a run that raises and restores
\* the document adds no hash record.
C29_HashRecordHasImageRecord ==
    (run.pc = "done" /\ ~aliased)
    => \A h \in DOMAIN updated_hashes :
          /\ json_path.kind = "json"
          /\ \E i \in 1..Len(ImageRecords(json_path.doc)) :
                ImageRecords(json_path.doc)[i].v["url"] = JStr(updated_hashes[h].filename)


\* C23: after an operation that writes src, url, filename, order or
\* sort_order of an image record (here the re-indexing pass), the record has
\* src = url = filename and, when sort_order is present, order = sort_order.
C23_AliasesInSync ==
    (normalized.called /\ normalized.exc = "none")
    => LET imgs == ImageRecords(normalized.ret)
       IN \A i \in 1..Len(imgs) :
             /\ imgs[i].v["src"] = imgs[i].v["url"]
             /\ imgs[i].v["url"] = imgs[i].v["filename"]
             /\ HasKey(imgs[i], "sort_order")
                => imgs[i].v["order"] = imgs[i].v["sort_order"]


-----------------------------------------------------------------------------
(* Main Window: claims.                                                    *)

\* C30: after any sequence of show_next_image, show_previous_image,
\* move_image_up, move_image_down and reorder_images on a non-empty list,
\* current_image_index is a valid position (0 <= index < len(images)) and,
\* after a move or a reorder, designates the record that was current before.
C30_CurrentIndexValid ==
    gui_last.op \notin {"idle", "none"}
    => /\ 0 <= current_image_index
       /\ current_image_index < Len(self_images)
       /\ gui_last.op \in {"move_image_up", "move_image_down", "reorder_images"}
          => CurrentSrc = gui_last.current


-----------------------------------------------------------------------------
(* Export Manager: claims.                                                 *)

\* C24: the manifest, the HTML preview and the ZIP are written only after
\* every submitted per-image export task has finished; if at least one image
\* export failed, none of them is written and the GalleryExportError raised
\* lists exactly the images that failed.
C24_ExportBarrier ==
    LET failedTasks == {i \in 1..Len(futures) : futures[i] = "failed"}
    IN /\ written # {}
          => /\ Len(futures) = Len(export_images)
             /\ \A i \in 1..Len(futures) : futures[i] \in Finished
       /\ failedTasks # {} => written = {}
       /\ (failedTasks # {} /\ ex_pc \notin {"submit", "wait", "check"})
          => ex_pc = "GalleryExportError"
       /\ ex_pc = "GalleryExportError"
          => /\ failedTasks # {}
             /\ \A src \in {<<97>>, <<98>>} :
                   Cardinality({i \in 1..Len(failed_files) : failed_files[i] = src})
                   = Cardinality({i \in failedTasks : export_images[i] = src})

\* an export of three images that raised after one image was exported and
\* two had failed
C24_Witness ==
    /\ ex_pc = "GalleryExportError"
    /\ Len(futures) = 3
    /\ Len(failed_files) = 2
    /\ \E i \in 1..3 : futures[i] = "exported"



-----------------------------------------------------------------------------
(* Thread utilities: claims.                                               *)

\* C25: every callback a run_in_thread worker schedules (its completion or
\* error callback) is eventually executed on the UI thread: once worker t
\* has scheduled its callback, the drain eventually calls it.
C25_ScheduledEventuallyExecuted ==
    \A t \in 1..MaxTasks :
        (workers[t] = "done")
            ~> (\E i \in 1..Len(executed) :
                    executed[i].cb \in {<<"callback", t>>, <<"default_error_handler", t>>})

\* C26: no progress callback and no completion callback (progress 1.0) is
\* scheduled after cancel() has returned.
C26_NothingScheduledAfterCancel ==
    \A i \in 1..Len(scheduled) :
        scheduled[i].cb[1] \in {"progress", "completion"} => ~scheduled[i].late

====
